---- MODULE Spec2Model ----
(***************************************************************************)
(* The clinical-trial ingestion pipeline of backend/app/services:          *)
(*   crawler.py        run_crawl, hash_trial_data, generate_trial_markdown *)
(*   clinicaltrials.py fetch_trials, fetch_all_trials, parse_trial_data    *)
(*   firecrawl.py      scrape_url, scrape_trial_page                       *)
(*   mongodb.py        get_all_crawl_records, update_crawl_record,         *)
(*                     save_trials, save_trial                             *)
(*                                                                         *)
(* run_crawl is a coroutine; one action of the model is the code between   *)
(* two suspension points (await) of one execution, together with the       *)
(* effect of the awaited call.  Every execution r has its own locals       *)
(* (functions over Runs); the two MongoDB collections and the registry     *)
(* are shared.                                                             *)
(***************************************************************************)
EXTENDS Integers, Sequences, FiniteSets, TLC

VARIABLES
    registry,          \* the studies ClinicalTrials.gov holds for the condition, in serving order
    crawl_index,       \* db.crawl_index: a set of documents [nct_id, source_hash, last_scraped]
    trials,            \* db.trials: a set of documents [nct_id, source_hash, enriched_content,
                       \*   created_at, updated_at]
    pc,                \* run_crawl: where execution r is suspended
    args,              \* run_crawl: the arguments of execution r
    stats,             \* run_crawl: the stats dict of execution r
    raw_trials,        \* run_crawl: result["trials"]
    existing_records,  \* run_crawl: the dict returned by get_all_crawl_records()
    trials_to_save,    \* run_crawl: the pending-write batch
    idx,               \* run_crawl: position of the for loop in raw_trials
    returned,          \* run_crawl: what the caller of execution r received
    log,               \* history: the calls and classifications of execution r, in order
    crawl_at_start,    \* history: db.crawl_index when execution r was called
    follows_clean,     \* history: execution r repeats an error-free run on an unchanged registry
    prev_clean,        \* history: page size of the last run if it returned without error, else 0
    fa_pc,             \* fetch_all_trials: where the call is
    fa_max_trials,     \* fetch_all_trials: its max_trials argument
    fa_all_trials,     \* fetch_all_trials: all_trials
    fa_page_token,     \* fetch_all_trials: page_token
    fa_page_size,      \* fetch_all_trials: page_size of the fetch_trials call in flight
    fa_sent_token,     \* fetch_all_trials: page_token of the fetch_trials call in flight
    fa_result,         \* fetch_all_trials: how the latest fetch_trials call ended
    hash_pc,           \* hash_trial_data: calls made on hash_in
    hash_in,           \* hash_trial_data: two records of parse_trial_data
    hash_out,          \* hash_trial_data: the fingerprints of the two records
    parse_pc,          \* parse_trial_data, generate_trial_markdown: calls made on parse_in
    parse_in,          \* parse_trial_data: the study handed to it
    parse_out,         \* parse_trial_data: the record it returned
    markdown,          \* generate_trial_markdown: the text it returned, by line
    clock,             \* what datetime.utcnow() reads
    save_call,         \* history: the latest call of save_trials or save_trial
    phase_pc,          \* normalize_phase: whether it has been called on phase_in
    phase_in,          \* normalize_phase: its argument, character by character
    phase_out,         \* normalize_phase: the bucket it returned
    bulk_pc,           \* trigger_bulk_crawl: where the handler is
    bulk_conditions,   \* trigger_bulk_crawl: the number of conditions to crawl
    bulk_stats,        \* history: the stats each run_crawl call returned, in order
    bulk_details,      \* trigger_bulk_crawl: details
    bulk_totals,       \* trigger_bulk_crawl: total_fetched, total_new, total_updated, total_skipped
    bulk_summary,      \* trigger_bulk_crawl: the summary of the response
    bs_pc,             \* batch_scrape: where the call is
    bs_urls,           \* batch_scrape: urls
    bs_concurrency,    \* batch_scrape: concurrency
    bs_i,              \* batch_scrape: i, the start of the current batch
    bs_tasks,          \* batch_scrape: the scrape_url calls handed to asyncio.gather
    bs_results,        \* batch_scrape: results
    bs_scrapes         \* history: how the scrapes of each URL ended, in order

crawl_vars == <<registry, crawl_index, trials, pc, args, stats, raw_trials,
                existing_records, trials_to_save, idx, returned, log,
                crawl_at_start, follows_clean, prev_clean>>
fa_vars == <<fa_pc, fa_max_trials, fa_all_trials, fa_page_token, fa_page_size,
             fa_sent_token, fa_result>>
pure_vars == <<hash_pc, hash_in, hash_out, parse_pc, parse_in, parse_out, markdown>>
save_vars == <<clock, save_call>>
phase_vars == <<phase_pc, phase_in, phase_out>>
bulk_vars == <<bulk_pc, bulk_conditions, bulk_stats, bulk_details, bulk_totals,
               bulk_summary>>
bs_vars == <<bs_pc, bs_urls, bs_concurrency, bs_i, bs_tasks, bs_results, bs_scrapes>>
aux_vars == <<phase_vars, bulk_vars, bs_vars>>
vars == <<crawl_vars, fa_vars, pure_vars, save_vars, aux_vars>>

-----------------------------------------------------------------------------
(* Bounds of the model *)

\* longest list of studies the registry holds for the condition
MaxUpstream == 2
\* latest reading of the clock
MaxClock == 3
\* longest list of phase tags of a study
MaxPhaseTags == 3
\* longest list of conditions of a bulk crawl
MaxConditions == 2
\* most studies one run_crawl call of a bulk crawl fetches
MaxRunFetched == 2
\* longest list of URLs handed to batch_scrape
MaxUrls == 3
\* largest concurrency argument of batch_scrape
MaxConcurrency == 2
\* largest max_trials argument of fetch_all_trials
MaxFetchAll == 52

(* Constants of the program *)

\* crawler.py: page_size=min(max_trials, 50)
CrawlPageCap == 50
\* clinicaltrials.py: page_size = min(50, max_trials - len(all_trials))
FetchAllPageCap == 50
\* mongodb.py: cursor.to_list(length=10000)
ToListLength == 10000

-----------------------------------------------------------------------------
(* Values *)

\* Python's None
Nil == "<None>"

\* the executions of run_crawl; Spec schedules the first one only
Runs == {1, 2}
SeqRuns == {1}

Min(a, b) == IF a <= b THEN a ELSE b

NctIds == {"NCT1", "NCT2"}

\* the max_trials arguments of run_crawl: one study, or as many as the registry may hold
TrialLimits == {1, MaxUpstream}

\* the eligibility criteria a study may carry: those of NCT1 are amended at times
Criteria(nct_id) == IF nct_id = "NCT1" THEN {"x", "y"} ELSE {"x"}

\* A study as the registry serves it.  wellFormed = FALSE stands for a study
\* whose "protocolSection" is JSON null: raw_trial.get("protocolSection", {})
\* is then None and protocol.get(...) raises AttributeError.
WellFormedTrials ==
    {[wellFormed |-> TRUE, nctId |-> id, briefTitle |-> "T",
      overallStatus |-> "RECRUITING", eligibilityCriteria |-> c] :
        <<id, c>> \in {p \in NctIds \X {"x", "y"} : p[2] \in Criteria(p[1])}}
MalformedTrial ==
    [wellFormed |-> FALSE, nctId |-> Nil, briefTitle |-> Nil,
     overallStatus |-> Nil, eligibilityCriteria |-> Nil]
RawTrials == WellFormedTrials \cup {MalformedTrial}

SeqsUpTo(S, n) == UNION {[1..k -> S] : k \in 0..n}
RegistryStates == SeqsUpTo(RawTrials, MaxUpstream)

-----------------------------------------------------------------------------
(* Pure functions of the pipeline *)

\* parse_trial_data raises on this study
parse_raises(raw_trial) == ~raw_trial.wellFormed

\* d.get(key, default): the default is the answer only when d has no such key
DictGet(d, key, default) == IF key \in DOMAIN d THEN d[key] ELSE default

\* an f-string field: str(v); trial.get(key, '') is None when the key holds None
FormatField(v) == IF v = Nil THEN "None" ELSE v

\* sep.join(strings)
RECURSIVE Join(_, _)
Join(strings, sep) ==
    IF strings = <<>> THEN ""
    ELSE IF Len(strings) = 1 THEN strings[1]
    ELSE strings[1] \o sep \o Join(Tail(strings), sep)

\* lines 163-164: phase_str
PhaseStr(phases) ==
    IF phases # <<>> THEN Join(phases, ", ") ELSE "N/A"

\* parse_trial_data.  A study is written flat: a key of raw_trial is the
\* leaf of the same name in the registry's JSON (startDate is
\* statusModule.startDateStruct.date, enrollment is
\* designModule.enrollmentInfo.count, leadSponsor is
\* sponsorCollaboratorsModule.leadSponsor.name).  A leaf is missing from
\* raw_trial when it, or a section around it, is missing from the JSON: the
\* section then reads as {} and the leaf as the default of its get.
parse_trial_data(raw_trial) ==
    LET locations == DictGet(raw_trial, "locations", <<>>)
        contacts == DictGet(raw_trial, "centralContacts", <<>>)
        interventions == DictGet(raw_trial, "interventions", <<>>)
        collaborators == DictGet(raw_trial, "collaborators", <<>>)
        outcomes == DictGet(raw_trial, "primaryOutcomes", <<>>)
    IN
    [nct_id               |-> DictGet(raw_trial, "nctId", Nil),
     title                |-> DictGet(raw_trial, "briefTitle", Nil),
     official_title       |-> DictGet(raw_trial, "officialTitle", Nil),
     status               |-> DictGet(raw_trial, "overallStatus", Nil),
     start_date           |-> DictGet(raw_trial, "startDate", Nil),
     completion_date      |-> DictGet(raw_trial, "completionDate", Nil),
     last_updated         |-> DictGet(raw_trial, "lastUpdateSubmitDate", Nil),
     phase                |-> PhaseStr(DictGet(raw_trial, "phases", <<>>)),
     study_type           |-> DictGet(raw_trial, "studyType", Nil),
     enrollment           |-> DictGet(raw_trial, "enrollment", Nil),
     eligibility_criteria |-> DictGet(raw_trial, "eligibilityCriteria", Nil),
     minimum_age          |-> DictGet(raw_trial, "minimumAge", Nil),
     maximum_age          |-> DictGet(raw_trial, "maximumAge", Nil),
     sex                  |-> DictGet(raw_trial, "sex", Nil),
     healthy_volunteers   |-> DictGet(raw_trial, "healthyVolunteers", Nil),
     brief_summary        |-> DictGet(raw_trial, "briefSummary", Nil),
     detailed_description |-> DictGet(raw_trial, "detailedDescription", Nil),
     sponsor              |-> DictGet(raw_trial, "leadSponsor", Nil),
     collaborators        |-> [j \in 1..Len(collaborators) |->
                                  DictGet(collaborators[j], "name", Nil)],
     locations            |-> [j \in 1..Len(locations) |->
                                  [facility |-> DictGet(locations[j], "facility", Nil),
                                   city     |-> DictGet(locations[j], "city", Nil),
                                   state    |-> DictGet(locations[j], "state", Nil),
                                   country  |-> DictGet(locations[j], "country", Nil),
                                   zip      |-> DictGet(locations[j], "zip", Nil)]],
     central_contacts     |-> [j \in 1..Len(contacts) |->
                                  [name  |-> DictGet(contacts[j], "name", Nil),
                                   role  |-> DictGet(contacts[j], "role", Nil),
                                   email |-> DictGet(contacts[j], "email", Nil),
                                   phone |-> DictGet(contacts[j], "phone", Nil)]],
     interventions        |-> [j \in 1..Len(interventions) |->
                                  [type        |-> DictGet(interventions[j], "type", Nil),
                                   name        |-> DictGet(interventions[j], "name", Nil),
                                   description |-> DictGet(interventions[j], "description", Nil)]],
     primary_outcomes     |-> [j \in 1..Len(outcomes) |->
                                  [measure    |-> DictGet(outcomes[j], "measure", Nil),
                                   time_frame |-> DictGet(outcomes[j], "timeFrame", Nil)]],
     source_url           |-> "https://clinicaltrials.gov/study/"
                                  \o FormatField(DictGet(raw_trial, "nctId", Nil))]

\* variant of hash_trial_data: the study type is digested too
hash_trial_data_WithStudyType(trial) ==
    FormatField(DictGet(trial, "title", ""))
        \o FormatField(DictGet(trial, "status", ""))
        \o FormatField(DictGet(trial, "eligibility_criteria", ""))
        \o FormatField(DictGet(trial, "study_type", ""))

\* hash_trial_data: the md5 digest is represented by the string it digests
hash_trial_data(trial) ==
    FormatField(DictGet(trial, "title", ""))
        \o FormatField(DictGet(trial, "status", ""))
        \o FormatField(DictGet(trial, "eligibility_criteria", ""))

\* existing_records.get(nct_id): the empty set is None
GetRecord(records, nct_id) == {e \in records : e.nct_id = nct_id}

\* variants of the skip test: force_refresh is not consulted; the stored
\* fingerprint is not compared
ShouldSkip_IgnoresForce(force_refresh, existing_record, source_hash) ==
    /\ existing_record # {}
    /\ \E e \in existing_record : e.source_hash = source_hash
ShouldSkip_AnyEntry(force_refresh, existing_record, source_hash) ==
    /\ ~force_refresh
    /\ existing_record # {}

\* line 238: not force_refresh and existing_record and
\*           existing_record.get("source_hash") == source_hash
ShouldSkip(force_refresh, existing_record, source_hash) ==
    /\ ~force_refresh
    /\ existing_record # {}
    /\ \E e \in existing_record : e.source_hash = source_hash

\* variant of is_new: the test is inverted
IsNew_Inverted(existing_record) == existing_record # {}

\* line 242: is_new = existing_record is None
IsNew(existing_record) == existing_record = {}

\* variant: enrichment is attempted whatever enrich_with_firecrawl says
AfterClassify_AlwaysEnrich(enrich_with_firecrawl) == "enrich"

\* line 254: the step after the counters when the record is processed
AfterClassify(enrich_with_firecrawl) ==
    IF enrich_with_firecrawl THEN "enrich" ELSE "update"

\* line 212
PageSize(max_trials) == Min(max_trials, CrawlPageCap)

\* fetch_trials: the registry serves at most pageSize studies, from the first
FirstPage(studies, page_size) == SubSeq(studies, 1, Min(page_size, Len(studies)))

\* scrape_url, by what happens inside: the client is not initialised
\* (get_firecrawl_client raises before the try), client.scrape_url raises
\* (the except branch), or it returns the page.
ScrapeOutcomes == {"ok", "client_error", "not_initialised"}

\* variant of scrape_url: the except branch answers success with an empty page
scrape_url_FailureAsSuccess(outcome) ==
    CASE outcome = "ok"              -> [raised |-> FALSE, success |-> TRUE,  markdown |-> "md"]
      [] outcome = "client_error"    -> [raised |-> FALSE, success |-> TRUE,  markdown |-> ""]
      [] outcome = "not_initialised" -> [raised |-> TRUE,  success |-> FALSE, markdown |-> Nil]

scrape_url(outcome) ==
    CASE outcome = "ok"              -> [raised |-> FALSE, success |-> TRUE,  markdown |-> "md"]
      [] outcome = "client_error"    -> [raised |-> FALSE, success |-> FALSE, markdown |-> Nil]
      [] outcome = "not_initialised" -> [raised |-> TRUE,  success |-> FALSE, markdown |-> Nil]

\* lines 253-260: enriched_content after the try/except around scrape_trial_page
EnrichedContent(scraped) ==
    IF ~scraped.raised /\ scraped.success THEN scraped.markdown ELSE Nil

\* lines 266-273: trial_doc
TrialDoc(parsed, source_hash, enriched_content) ==
    [nct_id |-> parsed.nct_id, source_hash |-> source_hash,
     enriched_content |-> enriched_content]

-----------------------------------------------------------------------------
(* MongoDB *)

\* a dict without keys
EmptyDict == [k \in {} |-> Nil]

\* variant of update_one: the matching document is replaced by a fresh insert
UpdateOneUpsert_Replace(coll, nct_id, set, set_on_insert) ==
    {d \in coll : d.nct_id # nct_id}
        \cup {[nct_id |-> nct_id] @@ set @@ set_on_insert}

\* variant of update_one: a document is inserted whether or not one matches
UpdateOneUpsert_AlwaysInsert(coll, nct_id, set, set_on_insert) ==
    coll \cup {[nct_id |-> nct_id] @@ set @@ set_on_insert}

\* update_one({"nct_id": nct_id}, {"$set": set, "$setOnInsert": set_on_insert},
\* upsert=True): the fields of set are written into the matching document,
\* which keeps its other fields; without a match a document is inserted
\* with the fields of the filter, of set and of set_on_insert
UpdateOneUpsert(coll, nct_id, set, set_on_insert) ==
    IF \E d \in coll : d.nct_id = nct_id
    THEN LET d == CHOOSE d \in coll : d.nct_id = nct_id
         IN  (coll \ {d}) \cup {set @@ d}
    ELSE coll \cup {[nct_id |-> nct_id] @@ set @@ set_on_insert}

\* variant of update_crawl_record: $setOnInsert in place of $set, an existing
\* entry keeps its fingerprint
update_crawl_record_InsertOnly(coll, nct_id, source_hash, now) ==
    IF \E d \in coll : d.nct_id = nct_id THEN coll
    ELSE coll \cup {[nct_id |-> nct_id, source_hash |-> source_hash,
                      last_scraped |-> now]}

\* update_crawl_record: $set of source_hash and last_scraped = utcnow(), upsert
update_crawl_record(coll, nct_id, source_hash, now) ==
    UpdateOneUpsert(coll, nct_id,
                    [source_hash |-> source_hash, last_scraped |-> now], EmptyDict)

\* lines 132-141 and 102-111: the upsert of one trial, stamped at now
SaveOne(coll, trial, now) ==
    UpdateOneUpsert(coll, trial.nct_id,
                    [updated_at |-> now] @@ trial, [created_at |-> now])

\* save_trials: bulk_write is ordered; the first k operations are applied
RECURSIVE BulkWrite(_, _, _, _)
BulkWrite(coll, docs, k, now) ==
    IF k = 0 THEN coll
    ELSE SaveOne(BulkWrite(coll, docs, k - 1, now), docs[k], now)

\* get_all_crawl_records: to_list returns at most ToListLength documents
get_all_crawl_records(coll) ==
    IF Cardinality(coll) <= ToListLength THEN {coll}
    ELSE {s \in SUBSET coll : Cardinality(s) = ToListLength}

-----------------------------------------------------------------------------
(* run_crawl *)

Event(op, i, ok) == [op |-> op, i |-> i, ok |-> ok]

InitStats ==
    [total_fetched |-> 0, new_trials |-> 0, updated_trials |-> 0,
     skipped_trials |-> 0, errors |-> <<>>, end_time |-> Nil]

InitArgs == [max_trials |-> 1, enrich_with_firecrawl |-> FALSE, force_refresh |-> FALSE]

Idle == \A r \in Runs : pc[r] = "idle"

\* lines 196-210: the call, with max_trials one of limits, up to the await
\* of fetch_trials
StartWith(r, limits) ==
    /\ pc[r] = "idle"
    /\ \E m \in limits, e \in BOOLEAN, f \in BOOLEAN :
         /\ args' = [args EXCEPT ![r] = [max_trials |-> m,
                                         enrich_with_firecrawl |-> e,
                                         force_refresh |-> f]]
         /\ follows_clean' = [follows_clean EXCEPT ![r] = (prev_clean = PageSize(m))]
    /\ pc' = [pc EXCEPT ![r] = "fetch"]
    /\ stats' = [stats EXCEPT ![r] = InitStats]
    /\ raw_trials' = [raw_trials EXCEPT ![r] = <<>>]
    /\ existing_records' = [existing_records EXCEPT ![r] = {}]
    /\ trials_to_save' = [trials_to_save EXCEPT ![r] = <<>>]
    /\ idx' = [idx EXCEPT ![r] = 0]
    /\ returned' = [returned EXCEPT ![r] = "none"]
    /\ log' = [log EXCEPT ![r] = <<>>]
    /\ crawl_at_start' = [crawl_at_start EXCEPT ![r] = crawl_index]
    /\ prev_clean' = 0
    /\ UNCHANGED <<registry, crawl_index, trials, fa_vars, pure_vars, save_vars, aux_vars>>

\* the call with any of the limits the runs of Spec use
Start(r) == StartWith(r, TrialLimits)

\* lines 292-307: stamp end_time and return stats to the caller
Return(r, s) ==
    /\ stats' = [stats EXCEPT ![r] = [s EXCEPT !.end_time = "set"]]
    /\ pc' = [pc EXCEPT ![r] = "done"]
    /\ returned' = [returned EXCEPT ![r] = "stats"]
    /\ prev_clean' = IF s.errors = <<>> THEN PageSize(args[r].max_trials) ELSE 0

\* lines 288-290: the handler of the try block, then the return
HandleException(r, e) ==
    Return(r, [stats[r] EXCEPT !.errors = Append(@, e)])

\* variant of lines 214-224: an empty page goes on to step 2 like any other
FetchReturns_AlwaysLoads(r) ==
    /\ pc[r] = "fetch"
    /\ LET page == FirstPage(registry, PageSize(args[r].max_trials))
       IN  /\ raw_trials' = [raw_trials EXCEPT ![r] = page]
           /\ log' = [log EXCEPT ![r] = Append(@, Event("fetch", 0, TRUE))]
           /\ stats' = [stats EXCEPT ![r].total_fetched = Len(page)]
           /\ pc' = [pc EXCEPT ![r] = "load"]
    /\ UNCHANGED <<registry, crawl_index, trials, args, existing_records,
                   trials_to_save, idx, returned, prev_clean, crawl_at_start,
                   follows_clean, fa_vars, pure_vars, save_vars, aux_vars>>

\* lines 214-224: fetch_trials returned
FetchReturns(r) ==
    /\ pc[r] = "fetch"
    /\ LET page == FirstPage(registry, PageSize(args[r].max_trials))
           s == [stats[r] EXCEPT !.total_fetched = Len(page)]
       IN  /\ raw_trials' = [raw_trials EXCEPT ![r] = page]
           /\ log' = [log EXCEPT ![r] = Append(@, Event("fetch", 0, TRUE))]
           /\ IF page = <<>>
              THEN Return(r, s)
              ELSE /\ stats' = [stats EXCEPT ![r] = s]
                   /\ pc' = [pc EXCEPT ![r] = "load"]
                   /\ UNCHANGED <<returned, prev_clean>>
    /\ UNCHANGED <<registry, crawl_index, trials, args, existing_records,
                   trials_to_save, idx, crawl_at_start, follows_clean, fa_vars, pure_vars, save_vars, aux_vars>>

\* fetch_trials raised (httpx error, raise_for_status)
FetchRaises(r) ==
    /\ pc[r] = "fetch"
    /\ log' = [log EXCEPT ![r] = Append(@, Event("fetch", 0, FALSE))]
    /\ HandleException(r, "fetch")
    /\ UNCHANGED <<registry, crawl_index, trials, args, raw_trials, existing_records,
                   trials_to_save, idx, crawl_at_start, follows_clean, fa_vars, pure_vars, save_vars, aux_vars>>

\* lines 225-230: get_all_crawl_records returned
LoadReturns(r) ==
    /\ pc[r] = "load"
    /\ \E records \in get_all_crawl_records(crawl_index) :
         existing_records' = [existing_records EXCEPT ![r] = records]
    /\ trials_to_save' = [trials_to_save EXCEPT ![r] = <<>>]
    /\ idx' = [idx EXCEPT ![r] = 1]
    /\ pc' = [pc EXCEPT ![r] = "loop"]
    /\ log' = [log EXCEPT ![r] = Append(@, Event("crawl_read", 0, TRUE))]
    /\ UNCHANGED <<registry, crawl_index, trials, args, stats, raw_trials, returned,
                   crawl_at_start, follows_clean, prev_clean, fa_vars, pure_vars, save_vars, aux_vars>>

\* get_all_crawl_records raised
LoadRaises(r) ==
    /\ pc[r] = "load"
    /\ log' = [log EXCEPT ![r] = Append(@, Event("crawl_read", 0, FALSE))]
    /\ HandleException(r, "crawl_read")
    /\ UNCHANGED <<registry, crawl_index, trials, args, raw_trials, existing_records,
                   trials_to_save, idx, crawl_at_start, follows_clean, fa_vars, pure_vars, save_vars, aux_vars>>

\* the locals of the loop body for the record at idx[r]
Parsed(r) == parse_trial_data(raw_trials[r][idx[r]])
SourceHash(r) == hash_trial_data(Parsed(r))
ExistingRecord(r) == GetRecord(existing_records[r], Parsed(r).nct_id)

\* line 233: parse_trial_data raises; the handler of the try block runs
RecordRaises(r) ==
    /\ pc[r] = "loop"
    /\ idx[r] <= Len(raw_trials[r])
    /\ parse_raises(raw_trials[r][idx[r]])
    /\ log' = [log EXCEPT ![r] = Append(@, Event("parse", idx[r], FALSE))]
    /\ HandleException(r, "record")
    /\ UNCHANGED <<registry, crawl_index, trials, args, raw_trials, existing_records,
                   trials_to_save, idx, crawl_at_start, follows_clean, fa_vars, pure_vars, save_vars, aux_vars>>

\* variant: the skip branch refreshes the entry of the record
SkipRecord_TouchesEntry(r) ==
    /\ pc[r] = "loop"
    /\ idx[r] <= Len(raw_trials[r])
    /\ ~parse_raises(raw_trials[r][idx[r]])
    /\ ShouldSkip(args[r].force_refresh, ExistingRecord(r), SourceHash(r))
    /\ stats' = [stats EXCEPT ![r].skipped_trials = @ + 1]
    /\ idx' = [idx EXCEPT ![r] = @ + 1]
    /\ log' = [log EXCEPT ![r] = Append(@, Event("skipped", idx[r], TRUE))]
    /\ crawl_index' = update_crawl_record(crawl_index, Parsed(r).nct_id, SourceHash(r), clock)
    /\ UNCHANGED <<registry, trials, pc, args, raw_trials, existing_records,
                   trials_to_save, returned, crawl_at_start, follows_clean,
                   prev_clean, fa_vars, pure_vars, save_vars, aux_vars>>

\* lines 233-240: the record is unchanged
SkipRecord(r) ==
    /\ pc[r] = "loop"
    /\ idx[r] <= Len(raw_trials[r])
    /\ ~parse_raises(raw_trials[r][idx[r]])
    /\ ShouldSkip(args[r].force_refresh, ExistingRecord(r), SourceHash(r))
    /\ stats' = [stats EXCEPT ![r].skipped_trials = @ + 1]
    /\ idx' = [idx EXCEPT ![r] = @ + 1]
    /\ log' = [log EXCEPT ![r] = Append(@, Event("skipped", idx[r], TRUE))]
    /\ UNCHANGED <<registry, crawl_index, trials, pc, args, raw_trials, existing_records,
                   trials_to_save, returned, crawl_at_start, follows_clean,
                   prev_clean, fa_vars, pure_vars, save_vars, aux_vars>>

\* variant: the document is built and dropped
AppendDoc_Dropped(r, enriched_content) == UNCHANGED trials_to_save

\* lines 262-275: render, build trial_doc, append it to the batch
AppendDoc(r, enriched_content) ==
    trials_to_save' = [trials_to_save EXCEPT ![r] =
                          Append(@, TrialDoc(Parsed(r), SourceHash(r), enriched_content))]

\* lines 233-256 (and 262-278 without enrichment): the record is new or changed
ProcessRecord(r) ==
    /\ pc[r] = "loop"
    /\ idx[r] <= Len(raw_trials[r])
    /\ ~parse_raises(raw_trials[r][idx[r]])
    /\ ~ShouldSkip(args[r].force_refresh, ExistingRecord(r), SourceHash(r))
    /\ IF IsNew(ExistingRecord(r))
       THEN /\ stats' = [stats EXCEPT ![r].new_trials = @ + 1]
            /\ log' = [log EXCEPT ![r] = Append(@, Event("new", idx[r], TRUE))]
       ELSE /\ stats' = [stats EXCEPT ![r].updated_trials = @ + 1]
            /\ log' = [log EXCEPT ![r] = Append(@, Event("updated", idx[r], TRUE))]
    /\ pc' = [pc EXCEPT ![r] = AfterClassify(args[r].enrich_with_firecrawl)]
    /\ IF AfterClassify(args[r].enrich_with_firecrawl) = "update"
       THEN AppendDoc(r, Nil)
       ELSE UNCHANGED trials_to_save
    /\ UNCHANGED <<registry, crawl_index, trials, args, raw_trials, existing_records,
                   idx, returned, crawl_at_start, follows_clean, prev_clean, fa_vars, pure_vars, save_vars, aux_vars>>

\* lines 256-278: scrape_trial_page returned or raised; render and append
ScrapeReturns(r) ==
    /\ pc[r] = "enrich"
    /\ \E outcome \in ScrapeOutcomes :
         LET scraped == scrape_url(outcome)
         IN  /\ AppendDoc(r, EnrichedContent(scraped))
             /\ log' = [log EXCEPT ![r] =
                           Append(@, Event("scrape", idx[r], outcome = "ok"))]
    /\ pc' = [pc EXCEPT ![r] = "update"]
    /\ UNCHANGED <<registry, crawl_index, trials, args, stats, raw_trials,
                   existing_records, idx, returned, crawl_at_start, follows_clean,
                   prev_clean, fa_vars, pure_vars, save_vars, aux_vars>>

\* line 278: update_crawl_record returned; the for loop goes to the next record
UpdateCrawlReturns(r) ==
    /\ pc[r] = "update"
    /\ crawl_index' = update_crawl_record(crawl_index, Parsed(r).nct_id, SourceHash(r), clock)
    /\ log' = [log EXCEPT ![r] = Append(@, Event("crawl_write", idx[r], TRUE))]
    /\ idx' = [idx EXCEPT ![r] = @ + 1]
    /\ pc' = [pc EXCEPT ![r] = "loop"]
    /\ UNCHANGED <<registry, trials, args, stats, raw_trials, existing_records,
                   trials_to_save, returned, crawl_at_start, follows_clean,
                   prev_clean, fa_vars, pure_vars, save_vars, aux_vars>>

\* update_crawl_record raised: the write is not applied
UpdateCrawlRaises(r) ==
    /\ pc[r] = "update"
    /\ log' = [log EXCEPT ![r] = Append(@, Event("crawl_write", idx[r], FALSE))]
    /\ HandleException(r, "crawl_write")
    /\ UNCHANGED <<registry, crawl_index, trials, args, raw_trials, existing_records,
                   trials_to_save, idx, crawl_at_start, follows_clean, fa_vars, pure_vars, save_vars, aux_vars>>

\* lines 281-286 with an empty batch: nothing to save, return
LoopEndsEmpty(r) ==
    /\ pc[r] = "loop"
    /\ idx[r] > Len(raw_trials[r])
    /\ trials_to_save[r] = <<>>
    /\ Return(r, stats[r])
    /\ UNCHANGED <<registry, crawl_index, trials, args, raw_trials, existing_records,
                   trials_to_save, idx, log, crawl_at_start, follows_clean, fa_vars, pure_vars, save_vars, aux_vars>>

\* lines 281-283: the batch is handed to save_trials
LoopEndsSave(r) ==
    /\ pc[r] = "loop"
    /\ idx[r] > Len(raw_trials[r])
    /\ trials_to_save[r] # <<>>
    /\ pc' = [pc EXCEPT ![r] = "save"]
    /\ UNCHANGED <<registry, crawl_index, trials, args, stats, raw_trials,
                   existing_records, trials_to_save, idx, returned, log,
                   crawl_at_start, follows_clean, prev_clean, fa_vars, pure_vars, save_vars, aux_vars>>

\* save_trials returned: every upsert of the bulk write is applied
SaveReturns(r) ==
    /\ pc[r] = "save"
    /\ trials' = BulkWrite(trials, trials_to_save[r], Len(trials_to_save[r]), clock)
    /\ log' = [log EXCEPT ![r] = Append(@, Event("trials_write", Len(trials_to_save[r]), TRUE))]
    /\ Return(r, stats[r])
    /\ UNCHANGED <<registry, crawl_index, args, raw_trials, existing_records,
                   trials_to_save, idx, crawl_at_start, follows_clean, fa_vars, pure_vars, save_vars, aux_vars>>

\* save_trials raised: the ordered bulk write stopped after k upserts
SaveRaises(r) ==
    /\ pc[r] = "save"
    /\ \E k \in 0..(Len(trials_to_save[r]) - 1) :
         /\ trials' = BulkWrite(trials, trials_to_save[r], k, clock)
         /\ log' = [log EXCEPT ![r] = Append(@, Event("trials_write", k, FALSE))]
    /\ HandleException(r, "save")
    /\ UNCHANGED <<registry, crawl_index, args, raw_trials, existing_records,
                   trials_to_save, idx, crawl_at_start, follows_clean, fa_vars, pure_vars, save_vars, aux_vars>>

\* the caller is done with the returned stats; the locals of the call are gone
Discard(r) ==
    /\ pc[r] = "done"
    /\ pc' = [pc EXCEPT ![r] = "idle"]
    /\ args' = [args EXCEPT ![r] = InitArgs]
    /\ stats' = [stats EXCEPT ![r] = InitStats]
    /\ raw_trials' = [raw_trials EXCEPT ![r] = <<>>]
    /\ existing_records' = [existing_records EXCEPT ![r] = {}]
    /\ trials_to_save' = [trials_to_save EXCEPT ![r] = <<>>]
    /\ idx' = [idx EXCEPT ![r] = 0]
    /\ returned' = [returned EXCEPT ![r] = "none"]
    /\ log' = [log EXCEPT ![r] = <<>>]
    /\ crawl_at_start' = [crawl_at_start EXCEPT ![r] = {}]
    /\ follows_clean' = [follows_clean EXCEPT ![r] = FALSE]
    /\ UNCHANGED <<registry, crawl_index, trials, prev_clean, fa_vars, pure_vars, save_vars, aux_vars>>

\* the registry's studies for the condition change between runs
RegistryChanges ==
    /\ Idle
    /\ \E studies \in RegistryStates \ {registry} : registry' = studies
    /\ prev_clean' = 0
    /\ UNCHANGED <<crawl_index, trials, pc, args, stats, raw_trials, existing_records,
                   trials_to_save, idx, returned, log, crawl_at_start, follows_clean,
                   fa_vars, pure_vars, save_vars, aux_vars>>

RunStep(r) ==
    \/ Start(r)
    \/ FetchReturns(r)
    \/ FetchRaises(r)
    \/ LoadReturns(r)
    \/ LoadRaises(r)
    \/ RecordRaises(r)
    \/ SkipRecord(r)
    \/ ProcessRecord(r)
    \/ ScrapeReturns(r)
    \/ UpdateCrawlReturns(r)
    \/ UpdateCrawlRaises(r)
    \/ LoopEndsEmpty(r)
    \/ LoopEndsSave(r)
    \/ SaveReturns(r)
    \/ SaveRaises(r)
    \/ Discard(r)

-----------------------------------------------------------------------------
(* fetch_all_trials *)

\* the nextPageToken values the registry answers with; None and "" are falsy
PageTokens == {Nil, "", "t1", "t2"}
Truthy(token) == token \notin {Nil, ""}

\* how a fetch_trials call ended: not yet, with result["next_page_token"], or
\* with an exception
NoResult == [state |-> "none", next_page_token |-> Nil]
PageResult(token) == [state |-> "page", next_page_token |-> token]
RaisedResult == [state |-> "raised", next_page_token |-> Nil]

\* variant: the records already held are not subtracted
FetchAllPageSize_NoRemainder(max_trials, fetched) == Min(FetchAllPageCap, max_trials)

\* line 106: page_size = min(50, max_trials - len(all_trials))
FetchAllPageSize(max_trials, fetched) == Min(FetchAllPageCap, max_trials - fetched)

\* the k studies of a page, numbered in the order the registry serves them
Page(served, k) == [j \in 1..k |-> served + j]

\* variant: the next call asks for the first page again
FetchAllLoop_FirstPageAgain(all_trials, page_token) ==
    IF Len(all_trials) < fa_max_trials'
    THEN /\ fa_pc' = "fetching"
         /\ fa_page_size' = FetchAllPageSize(fa_max_trials', Len(all_trials))
         /\ fa_sent_token' = Nil
    ELSE /\ fa_pc' = "returned"
         /\ UNCHANGED <<fa_page_size, fa_sent_token>>

\* line 105 and lines 106-111: the loop test, then the next fetch_trials call or the return
FetchAllLoop(all_trials, page_token) ==
    IF Len(all_trials) < fa_max_trials'
    THEN /\ fa_pc' = "fetching"
         /\ fa_page_size' = FetchAllPageSize(fa_max_trials', Len(all_trials))
         /\ fa_sent_token' = page_token
    ELSE /\ fa_pc' = "returned"
         /\ UNCHANGED <<fa_page_size, fa_sent_token>>

\* lines 102-111: the call, up to the first await of fetch_trials
FetchAllCall ==
    /\ fa_pc = "idle"
    /\ fa_max_trials' \in 0..MaxFetchAll
    /\ fa_all_trials' = <<>>
    /\ fa_page_token' = Nil
    /\ fa_result' = NoResult
    /\ FetchAllLoop(<<>>, Nil)
    /\ UNCHANGED <<crawl_vars, pure_vars, save_vars, aux_vars>>

\* lines 113-118: fetch_trials returned a page of at most pageSize studies
FetchAllPageReturns ==
    /\ fa_pc = "fetching"
    /\ \E k \in 0..fa_page_size, token \in PageTokens :
         LET all_trials == fa_all_trials \o Page(Len(fa_all_trials), k)
         IN  /\ fa_all_trials' = all_trials
             /\ fa_max_trials' = fa_max_trials
             /\ fa_result' = PageResult(token)
             /\ IF ~Truthy(token) \/ k = 0
                THEN /\ fa_pc' = "returned"
                     /\ UNCHANGED <<fa_page_token, fa_page_size, fa_sent_token>>
                ELSE /\ fa_page_token' = token
                     /\ FetchAllLoop(all_trials, token)
    /\ UNCHANGED <<crawl_vars, pure_vars, save_vars, aux_vars>>

\* variant: the exception is caught and the records held so far are returned
FetchAllPageRaises_ReturnsPartial ==
    /\ fa_pc = "fetching"
    /\ fa_pc' = "returned"
    /\ fa_result' = RaisedResult
    /\ UNCHANGED <<fa_max_trials, fa_all_trials, fa_page_token, fa_page_size,
                   fa_sent_token, crawl_vars, pure_vars, save_vars, aux_vars>>

\* fetch_trials raised: the exception leaves fetch_all_trials
FetchAllPageRaises ==
    /\ fa_pc = "fetching"
    /\ fa_pc' = "raised"
    /\ fa_result' = RaisedResult
    /\ UNCHANGED <<fa_max_trials, fa_all_trials, fa_page_token, fa_page_size,
                   fa_sent_token, crawl_vars, pure_vars, save_vars, aux_vars>>

\* the caller is done with the result
FetchAllDiscard ==
    /\ fa_pc \in {"returned", "raised"}
    /\ fa_pc' = "idle"
    /\ fa_max_trials' = 0
    /\ fa_all_trials' = <<>>
    /\ fa_page_token' = Nil
    /\ fa_page_size' = 0
    /\ fa_sent_token' = Nil
    /\ fa_result' = NoResult
    /\ UNCHANGED <<crawl_vars, pure_vars, save_vars, aux_vars>>

-----------------------------------------------------------------------------
(* normalize_phase *)

\* Texts are sequences of characters here: normalize_phase lowers its
\* argument and tests it for substrings.
Spelling ==
    [EARLY_PHASE1 |-> <<"E", "A", "R", "L", "Y", "_", "P", "H", "A", "S", "E", "1">>,
     PHASE1 |-> <<"P", "H", "A", "S", "E", "1">>,
     PHASE2 |-> <<"P", "H", "A", "S", "E", "2">>,
     PHASE3 |-> <<"P", "H", "A", "S", "E", "3">>,
     PHASE4 |-> <<"P", "H", "A", "S", "E", "4">>,
     NA |-> <<"N", "A">>]

\* the phase tags of the registry
PhaseTags == DOMAIN Spelling

N_A == <<"N", "/", "A">>
\* None where a text is expected
NoText == <<Nil>>

\* sep.join(texts)
RECURSIVE JoinChars(_, _)
JoinChars(texts, sep) ==
    IF texts = <<>> THEN <<>>
    ELSE IF Len(texts) = 1 THEN texts[1]
    ELSE texts[1] \o sep \o JoinChars(Tail(texts), sep)

\* clinicaltrials.py lines 163-164: ", ".join(phases) if phases else "N/A"
PhaseText(phases) ==
    IF phases = <<>> THEN N_A
    ELSE JoinChars([j \in 1..Len(phases) |-> Spelling[phases[j]]], <<",", " ">>)

\* str.lower()
LowerChar(c) ==
    CASE c = "A" -> "a" [] c = "E" -> "e" [] c = "H" -> "h" [] c = "L" -> "l"
      [] c = "N" -> "n" [] c = "P" -> "p" [] c = "R" -> "r" [] c = "S" -> "s"
      [] c = "Y" -> "y" [] OTHER -> c
Lower(text) == [j \in 1..Len(text) |-> LowerChar(text[j])]

\* sub in text
Contains(text, sub) ==
    \E j \in 0..(Len(text) - Len(sub)) :
        \A k \in 1..Len(sub) : text[j + k] = sub[k]

\* crawler.py lines 56-86
normalize_phase(phase) ==
    IF phase = NoText \/ phase = <<>> \/ phase \in {N_A, <<"N", "A">>} THEN "other"
    ELSE LET phase_lower == Lower(phase)
         IN  IF Contains(phase_lower, <<"1">>) /\ Contains(phase_lower, <<"2">>)
             THEN "phase1_2"
             ELSE IF Contains(phase_lower, <<"2">>) /\ Contains(phase_lower, <<"3">>)
             THEN "phase2_3"
             ELSE IF Contains(phase_lower, <<"1">>) THEN "phase1"
             ELSE IF Contains(phase_lower, <<"2">>) THEN "phase2"
             ELSE IF Contains(phase_lower, <<"3">>) THEN "phase3"
             ELSE IF Contains(phase_lower, <<"4">>) THEN "phase4"
             ELSE IF Contains(phase_lower, <<"e", "a", "r", "l", "y">>) THEN "early_phase1"
             ELSE "other"

\* the arguments: None, the empty text, "NA", and the summary
\* parse_trial_data makes of any list of up to MaxPhaseTags tags
PhaseInputs ==
    {NoText, <<>>} \cup {PhaseText(phases) : phases \in SeqsUpTo(PhaseTags, MaxPhaseTags)}

\* normalize_phase(phase_in) is called
NormalizeCall ==
    /\ phase_pc = "input"
    /\ phase_out' = normalize_phase(phase_in)
    /\ phase_pc' = "normalized"
    /\ UNCHANGED <<phase_in, crawl_vars, fa_vars, pure_vars, save_vars, bulk_vars, bs_vars>>

PhaseIdle ==
    /\ phase_pc = "idle"
    /\ phase_in = <<>>
    /\ phase_out = Nil

-----------------------------------------------------------------------------
(* trigger_bulk_crawl (routes/trials.py) *)

\* the stats dicts a run_crawl call may return: no more records classified
\* than fetched
RunStats ==
    {[InitStats EXCEPT !.total_fetched = t, !.new_trials = n, !.updated_trials = u,
                       !.skipped_trials = k, !.end_time = "set"] :
        <<t, n, u, k>> \in {q \in (0..MaxRunFetched) \X (0..MaxRunFetched)
                                   \X (0..MaxRunFetched) \X (0..MaxRunFetched) :
                               q[2] + q[3] + q[4] <= q[1]}}

NoTotals == [fetched |-> 0, new |-> 0, updated |-> 0, skipped |-> 0]
NoSummary == [total_fetched |-> 0, new_added |-> 0, updated |-> 0, duplicates_skipped |-> 0]

\* lines 211-222: the counters read from stats, for condition number c
BulkCrawlConditionResult(c, run_stats) ==
    [condition |-> c,
     fetched |-> DictGet(run_stats, "total_fetched", 0),
     new |-> DictGet(run_stats, "new_trials", 0),
     updated |-> DictGet(run_stats, "updated_trials", 0),
     skipped |-> DictGet(run_stats, "skipped", 0)]

\* lines 224-227
AddTotals(totals, detail) ==
    [fetched |-> totals.fetched + detail.fetched,
     new |-> totals.new + detail.new,
     updated |-> totals.updated + detail.updated,
     skipped |-> totals.skipped + detail.skipped]

\* lines 248-253
Summary(totals) ==
    [total_fetched |-> totals.fetched, new_added |-> totals.new,
     updated |-> totals.updated, duplicates_skipped |-> totals.skipped]

\* lines 171-205: the request, with conditions given or detected; without any
\* the zero summary is returned, else run_crawl is awaited for the first one
BulkCall ==
    /\ bulk_pc = "idle"
    /\ \E n \in 0..MaxConditions :
         /\ bulk_conditions' = n
         /\ bulk_pc' = IF n = 0 THEN "returned" ELSE "crawling"
    /\ bulk_stats' = <<>>
    /\ bulk_details' = <<>>
    /\ bulk_totals' = NoTotals
    /\ bulk_summary' = NoSummary
    /\ UNCHANGED <<crawl_vars, fa_vars, pure_vars, save_vars, phase_vars, bs_vars>>

\* lines 205-230 and 245-255: run_crawl returned stats for the condition; the
\* detail is appended, the totals grow, and after the last condition the
\* response is returned
BulkRunReturns ==
    /\ bulk_pc = "crawling"
    /\ \E run_stats \in RunStats :
         LET detail == BulkCrawlConditionResult(Len(bulk_details) + 1, run_stats)
             totals == AddTotals(bulk_totals, detail)
         IN  /\ bulk_stats' = Append(bulk_stats, run_stats)
             /\ bulk_details' = Append(bulk_details, detail)
             /\ bulk_totals' = totals
             /\ IF Len(bulk_details) + 1 = bulk_conditions
                THEN /\ bulk_pc' = "returned"
                     /\ bulk_summary' = Summary(totals)
                ELSE UNCHANGED <<bulk_pc, bulk_summary>>
    /\ UNCHANGED <<bulk_conditions, crawl_vars, fa_vars, pure_vars, save_vars, phase_vars,
                   bs_vars>>

\* the response has been sent
BulkDiscard ==
    /\ bulk_pc = "returned"
    /\ bulk_pc' = "idle"
    /\ bulk_conditions' = 0
    /\ bulk_stats' = <<>>
    /\ bulk_details' = <<>>
    /\ bulk_totals' = NoTotals
    /\ bulk_summary' = NoSummary
    /\ UNCHANGED <<crawl_vars, fa_vars, pure_vars, save_vars, phase_vars, bs_vars>>

BulkIdle ==
    /\ bulk_pc = "idle"
    /\ bulk_conditions = 0
    /\ bulk_stats = <<>>
    /\ bulk_details = <<>>
    /\ bulk_totals = NoTotals
    /\ bulk_summary = NoSummary

-----------------------------------------------------------------------------
(* batch_scrape (firecrawl.py) *)

\* the URLs of the call
Url(j) == "u" \o ToString(j)
Urls(n) == [j \in 1..n |-> Url(j)]

\* variant: the slice is one URL wider than concurrency
BatchOf_Wide(urls, i, concurrency) ==
    SubSeq(urls, i + 1, Min(i + concurrency + 1, Len(urls)))

\* line 109: batch = urls[i:i + concurrency]
BatchOf(urls, i, concurrency) ==
    SubSeq(urls, i + 1, Min(i + concurrency, Len(urls)))

\* lines 110-113: one scrape_url coroutine per URL of the batch
Gather(batch) ==
    [k \in 1..Len(batch) |-> [url |-> batch[k], state |-> "pending", outcome |-> Nil]]

\* lines 115-122: what is appended to results for a finished scrape_url call:
\* the dict it returned, or a failure dict for the exception it raised
ResultOf(task) ==
    LET scraped == scrape_url(task.outcome)
    IN  IF scraped.raised
        THEN [success |-> FALSE, url |-> Nil, markdown |-> Nil]
        ELSE [success |-> scraped.success, url |-> task.url, markdown |-> scraped.markdown]

\* the position of url in urls
IndexOf(urls, url) == CHOOSE j \in 1..Len(urls) : urls[j] = url

\* lines 105-113: the call with concurrency >= 1, up to the first gather; an
\* empty list returns at once
BatchScrapeCall ==
    /\ bs_pc = "idle"
    /\ \E n \in 0..MaxUrls, c \in 1..MaxConcurrency :
         /\ bs_urls' = Urls(n)
         /\ bs_concurrency' = c
         /\ bs_scrapes' = [j \in 1..n |-> <<>>]
         /\ bs_tasks' = Gather(BatchOf(Urls(n), 0, c))
         /\ bs_pc' = IF n = 0 THEN "returned" ELSE "gathering"
    /\ bs_i' = 0
    /\ bs_results' = <<>>
    /\ UNCHANGED <<crawl_vars, fa_vars, pure_vars, save_vars, phase_vars, bulk_vars>>

\* the event loop runs a scrape_url coroutine of the gather; scrape_url has
\* no await of its own (client.scrape_url is a blocking call), so no other
\* coroutine runs until it ends
TaskStarts ==
    /\ bs_pc = "gathering"
    /\ \A k \in 1..Len(bs_tasks) : bs_tasks[k].state # "running"
    /\ \E k \in 1..Len(bs_tasks) :
         /\ bs_tasks[k].state = "pending"
         /\ bs_tasks' = [bs_tasks EXCEPT ![k].state = "running"]
    /\ UNCHANGED <<bs_pc, bs_urls, bs_concurrency, bs_i, bs_results, bs_scrapes,
                   crawl_vars, fa_vars, pure_vars, save_vars, phase_vars, bulk_vars>>

\* lines 50-75: the running scrape_url call returns or raises
TaskEnds ==
    /\ bs_pc = "gathering"
    /\ \E k \in 1..Len(bs_tasks), outcome \in ScrapeOutcomes :
         /\ bs_tasks[k].state = "running"
         /\ bs_tasks' = [bs_tasks EXCEPT ![k].state = "done", ![k].outcome = outcome]
         /\ bs_scrapes' = [bs_scrapes EXCEPT ![IndexOf(bs_urls, bs_tasks[k].url)] =
                               Append(@, outcome)]
    /\ UNCHANGED <<bs_pc, bs_urls, bs_concurrency, bs_i, bs_results,
                   crawl_vars, fa_vars, pure_vars, save_vars, phase_vars, bulk_vars>>

\* lines 110-128: gather returns once every call of the batch has ended; the
\* results are appended in the order of the batch; then the pause before the
\* next batch, or the return
GatherReturns ==
    /\ bs_pc = "gathering"
    /\ \A k \in 1..Len(bs_tasks) : bs_tasks[k].state = "done"
    /\ bs_results' = bs_results \o [k \in 1..Len(bs_tasks) |-> ResultOf(bs_tasks[k])]
    /\ bs_tasks' = <<>>
    /\ bs_pc' = IF bs_i + bs_concurrency < Len(bs_urls) THEN "sleeping" ELSE "returned"
    /\ UNCHANGED <<bs_urls, bs_concurrency, bs_i, bs_scrapes,
                   crawl_vars, fa_vars, pure_vars, save_vars, phase_vars, bulk_vars>>

\* lines 125-126 and 108-113: asyncio.sleep(1) returns; the next batch
SleepReturns ==
    /\ bs_pc = "sleeping"
    /\ bs_i' = bs_i + bs_concurrency
    /\ bs_tasks' = Gather(BatchOf(bs_urls, bs_i + bs_concurrency, bs_concurrency))
    /\ bs_pc' = "gathering"
    /\ UNCHANGED <<bs_urls, bs_concurrency, bs_results, bs_scrapes,
                   crawl_vars, fa_vars, pure_vars, save_vars, phase_vars, bulk_vars>>

\* the caller is done with the results
BatchDiscard ==
    /\ bs_pc = "returned"
    /\ bs_pc' = "idle"
    /\ bs_urls' = <<>>
    /\ bs_concurrency' = 1
    /\ bs_i' = 0
    /\ bs_tasks' = <<>>
    /\ bs_results' = <<>>
    /\ bs_scrapes' = <<>>
    /\ UNCHANGED <<crawl_vars, fa_vars, pure_vars, save_vars, phase_vars, bulk_vars>>

BatchIdle ==
    /\ bs_pc = "idle"
    /\ bs_urls = <<>>
    /\ bs_concurrency = 1
    /\ bs_i = 0
    /\ bs_tasks = <<>>
    /\ bs_results = <<>>
    /\ bs_scrapes = <<>>

AuxIdle == PhaseIdle /\ BulkIdle /\ BatchIdle

-----------------------------------------------------------------------------
(* hash_trial_data on records of parse_trial_data *)

\* the studies whose records are fingerprinted: title, status and criteria
\* are missing, empty or a text, and so is the study type
HashTitles == {"", "a", "ab", "None"}
HashStatuses == {"", "b"}
HashCriteria == {"", "b"}
HashStudyTypes == {"INTERVENTIONAL"}

HashStudies ==
    {[wellFormed |-> TRUE, nctId |-> "NCT1"] @@ t @@ st @@ c @@ ty :
        t  \in {<<>>} \cup {[briefTitle |-> v] : v \in HashTitles},
        st \in {<<>>} \cup {[overallStatus |-> v] : v \in HashStatuses},
        c  \in {<<>>} \cup {[eligibilityCriteria |-> v] : v \in HashCriteria},
        ty \in {<<>>} \cup {[studyType |-> v] : v \in HashStudyTypes}}

\* hash_trial_data is called on each of the two records
HashCall ==
    /\ hash_pc = "input"
    /\ hash_out' = <<hash_trial_data(hash_in[1]), hash_trial_data(hash_in[2])>>
    /\ hash_pc' = "hashed"
    /\ UNCHANGED <<hash_in, parse_pc, parse_in, parse_out, markdown, crawl_vars, fa_vars, save_vars, aux_vars>>

\* and called on each of them once more
HashAgain ==
    /\ hash_pc = "hashed"
    /\ hash_out' = <<hash_trial_data(hash_in[1]), hash_trial_data(hash_in[2])>>
    /\ hash_pc' = "hashed twice"
    /\ UNCHANGED <<hash_in, parse_pc, parse_in, parse_out, markdown, crawl_vars, fa_vars, save_vars, aux_vars>>

-----------------------------------------------------------------------------
(* parse_trial_data and generate_trial_markdown on sparse studies *)

\* a study with every leaf parse_trial_data reads
FullTrial ==
    [wellFormed |-> TRUE,
     nctId |-> "NCT1", briefTitle |-> "T", officialTitle |-> "OT",
     overallStatus |-> "RECRUITING", startDate |-> "2024-01",
     completionDate |-> "2025-01", lastUpdateSubmitDate |-> "2024-06",
     phases |-> <<"PHASE1", "PHASE2">>, studyType |-> "INTERVENTIONAL",
     enrollment |-> "10",
     eligibilityCriteria |-> "x", minimumAge |-> "18 Years",
     maximumAge |-> "65 Years", sex |-> "ALL", healthyVolunteers |-> "True",
     briefSummary |-> "S", detailedDescription |-> "D",
     leadSponsor |-> "SP", collaborators |-> <<[name |-> "CO"]>>,
     locations |-> <<[facility |-> "F", city |-> "C"]>>,
     centralContacts |-> <<[name |-> "N", email |-> "E"]>>,
     interventions |-> <<[type |-> "DRUG", name |-> "X"]>>,
     primaryOutcomes |-> <<[measure |-> "M"]>>]

\* lines 152-160: the sections of protocolSection and the leaves read from each
Sections ==
    [identificationModule       |-> {"nctId", "briefTitle", "officialTitle"},
     statusModule               |-> {"overallStatus", "startDate", "completionDate",
                                     "lastUpdateSubmitDate"},
     designModule               |-> {"phases", "studyType", "enrollment"},
     eligibilityModule          |-> {"eligibilityCriteria", "minimumAge", "maximumAge",
                                     "sex", "healthyVolunteers"},
     contactsLocationsModule    |-> {"locations", "centralContacts"},
     descriptionModule          |-> {"briefSummary", "detailedDescription"},
     sponsorCollaboratorsModule |-> {"leadSponsor", "collaborators"},
     outcomesModule             |-> {"primaryOutcomes"},
     armsInterventionsModule    |-> {"interventions"}]

Leaves(present) == UNION {Sections[m] : m \in present}

\* the study with the given leaves only
Restrict(raw_trial, keys) == [k \in keys \cup {"wellFormed"} |-> raw_trial[k]]

\* the studies that lack any set of sections and at most one leaf of a
\* section they have: from the full study to the empty one
SparseTrials ==
    {Restrict(FullTrial, Leaves(present) \ dropped) :
        present \in SUBSET DOMAIN Sections,
        dropped \in {{}} \cup {{k} : k \in Leaves(DOMAIN Sections)}}

\* lines 130-170: the lines that interpolate trial.get(key, default), as
\* <<key, text before, default, text after>>
ScalarLines ==
    [heading         |-> <<"nct_id", "# Trial: ", "Unknown", "">>,
     title           |-> <<"title", "- **Title:** ", "N/A", "">>,
     official_title  |-> <<"official_title", "- **Official Title:** ", "N/A", "">>,
     phase           |-> <<"phase", "- **Phase:** ", "N/A", "">>,
     status          |-> <<"status", "- **Status:** ", "N/A", "">>,
     study_type      |-> <<"study_type", "- **Study Type:** ", "N/A", "">>,
     sponsor         |-> <<"sponsor", "- **Sponsor:** ", "N/A", "">>,
     enrollment      |-> <<"enrollment", "- **Enrollment:** ", "N/A", " participants">>,
     description     |-> <<"brief_summary", "", "No description available.", "">>,
     criteria        |-> <<"eligibility_criteria", "",
                           "No eligibility criteria specified.", "">>,
     minimum_age     |-> <<"minimum_age", "- **Minimum Age:** ", "N/A", "">>,
     maximum_age     |-> <<"maximum_age", "- **Maximum Age:** ", "N/A", "">>,
     sex             |-> <<"sex", "- **Sex:** ", "All", "">>,
     start_date      |-> <<"start_date", "- **Start Date:** ", "N/A", "">>,
     completion_date |-> <<"completion_date", "- **Completion Date:** ", "N/A", "">>,
     last_updated    |-> <<"last_updated", "- **Last Updated:** ", "N/A", "">>,
     source_url      |-> <<"source_url", "- **ClinicalTrials.gov:** ", "N/A", "">>,
     nct_id          |-> <<"nct_id", "- **NCT ID:** ", "N/A", "">>]

\* lines 102-105, 112-115, 122-126: one line per entry of a list
LocationLine(loc) ==
    "- " \o FormatField(DictGet(loc, "city", "Unknown")) \o ", "
         \o FormatField(DictGet(loc, "state", "")) \o " "
         \o FormatField(DictGet(loc, "country", "")) \o " - "
         \o FormatField(DictGet(loc, "facility", "N/A"))
ContactLine(c) ==
    "- " \o FormatField(DictGet(c, "name", "N/A")) \o " ("
         \o FormatField(DictGet(c, "role", "N/A")) \o "): "
         \o FormatField(DictGet(c, "email", "N/A")) \o ", "
         \o FormatField(DictGet(c, "phone", "N/A"))
InterventionLine(i) ==
    "- **" \o FormatField(DictGet(i, "type", "N/A")) \o ":** "
           \o FormatField(DictGet(i, "name", "N/A"))
           \o (IF Truthy(DictGet(i, "description", Nil))
               THEN " - " \o FormatField(DictGet(i, "description", ""))
               ELSE "")

\* a list block: its lines, or the line that says the list is empty
ListBlock(lines, none_listed) == IF lines # <<>> THEN lines ELSE <<none_listed>>

\* generate_trial_markdown: the text, by the lines that depend on trial
generate_trial_markdown(trial) ==
    LET locations == DictGet(trial, "locations", <<>>)
        contacts == DictGet(trial, "central_contacts", <<>>)
        interventions == DictGet(trial, "interventions", <<>>)
    IN
    [scalars |-> [l \in DOMAIN ScalarLines |->
                     ScalarLines[l][2]
                         \o FormatField(DictGet(trial, ScalarLines[l][1], ScalarLines[l][3]))
                         \o ScalarLines[l][4]],
     healthy_volunteers |->
         "- **Healthy Volunteers:** "
             \o (IF Truthy(DictGet(trial, "healthy_volunteers", Nil)) THEN "Yes" ELSE "No"),
     interventions |->
         ListBlock([j \in 1..Len(interventions) |-> InterventionLine(interventions[j])],
                   "- No interventions listed"),
     locations |->
         ListBlock([j \in 1..Len(locations) |-> LocationLine(locations[j])],
                   "- No locations listed"),
     contacts |->
         ListBlock([j \in 1..Len(contacts) |-> ContactLine(contacts[j])],
                   "- No central contacts listed")]

\* parse_trial_data is called on the study
ParseCall ==
    /\ parse_pc = "input"
    /\ ~parse_raises(parse_in)
    /\ parse_out' = parse_trial_data(parse_in)
    /\ parse_pc' = "parsed"
    /\ UNCHANGED <<parse_in, markdown, hash_pc, hash_in, hash_out, crawl_vars, fa_vars, save_vars, aux_vars>>

\* generate_trial_markdown is called on the record
RenderCall ==
    /\ parse_pc = "parsed"
    /\ markdown' = generate_trial_markdown(parse_out)
    /\ parse_pc' = "rendered"
    /\ UNCHANGED <<parse_in, parse_out, hash_pc, hash_in, hash_out, crawl_vars, fa_vars, save_vars, aux_vars>>

-----------------------------------------------------------------------------
(* save_trials and save_trial as time passes *)

\* the documents handed to save_trials: trial_doc of every well-formed study
SaveDocs ==
    {TrialDoc(parse_trial_data(t), hash_trial_data(parse_trial_data(t)), Nil) :
        t \in WellFormedTrials}

NoSave == [ids |-> {}, at |-> 0]

\* save_trials(docs): the bulk write applies every upsert, or raises after k
SaveTrialsCall ==
    /\ \E docs \in SeqsUpTo(SaveDocs, MaxUpstream) :
         \E k \in 0..Len(docs) :
            /\ trials' = BulkWrite(trials, docs, k, clock)
            /\ save_call' = [ids |-> {docs[j].nct_id : j \in 1..k}, at |-> clock]
    /\ UNCHANGED <<registry, crawl_index, pc, args, stats, raw_trials, existing_records,
                   trials_to_save, idx, returned, log, crawl_at_start, follows_clean,
                   prev_clean, clock, fa_vars, pure_vars, aux_vars>>

\* save_trial(trial)
SaveTrialCall ==
    /\ \E trial \in SaveDocs :
         /\ trials' = SaveOne(trials, trial, clock)
         /\ save_call' = [ids |-> {trial.nct_id}, at |-> clock]
    /\ UNCHANGED <<registry, crawl_index, pc, args, stats, raw_trials, existing_records,
                   trials_to_save, idx, returned, log, crawl_at_start, follows_clean,
                   prev_clean, clock, fa_vars, pure_vars, aux_vars>>

\* time passes
Tick ==
    /\ clock < MaxClock
    /\ clock' = clock + 1
    /\ UNCHANGED <<save_call, crawl_vars, fa_vars, pure_vars, aux_vars>>

SaveIdle ==
    /\ clock = 0
    /\ save_call = NoSave

HashIdle ==
    /\ hash_pc = "idle"
    /\ hash_in = <<>>
    /\ hash_out = <<>>

ParseIdle ==
    /\ parse_pc = "idle"
    /\ parse_in = <<>>
    /\ parse_out = <<>>
    /\ markdown = <<>>

FetchAllInit ==
    /\ fa_pc = "idle"
    /\ fa_max_trials = 0
    /\ fa_all_trials = <<>>
    /\ fa_page_token = Nil
    /\ fa_page_size = 0
    /\ fa_sent_token = Nil
    /\ fa_result = NoResult

CrawlIdle ==
    /\ crawl_index = {}
    /\ trials = {}
    /\ pc = [r \in Runs |-> "idle"]
    /\ args = [r \in Runs |-> InitArgs]
    /\ stats = [r \in Runs |-> InitStats]
    /\ raw_trials = [r \in Runs |-> <<>>]
    /\ existing_records = [r \in Runs |-> {}]
    /\ trials_to_save = [r \in Runs |-> <<>>]
    /\ idx = [r \in Runs |-> 0]
    /\ returned = [r \in Runs |-> "none"]
    /\ log = [r \in Runs |-> <<>>]
    /\ crawl_at_start = [r \in Runs |-> {}]
    /\ follows_clean = [r \in Runs |-> FALSE]
    /\ prev_clean = 0

CrawlInit == registry \in RegistryStates /\ CrawlIdle

Init == CrawlInit /\ FetchAllInit /\ HashIdle /\ ParseIdle /\ SaveIdle /\ AuxIdle

Next ==
    \/ \E r \in SeqRuns : RunStep(r)
    \/ RegistryChanges

\* runs of run_crawl one after another, the registry changing between them;
\* the clock stands still
Spec == Init /\ [][Next]_vars

\* registries of two different studies, the first one NCT1 with criteria x
PairRegistries ==
    {studies \in [1..2 -> RawTrials] :
        studies[1].nctId = "NCT1" /\ studies[1].eligibilityCriteria = "x"
           /\ studies[2] # studies[1]}

TimedSpecInit ==
    /\ registry \in PairRegistries
    /\ CrawlIdle /\ FetchAllInit /\ HashIdle /\ ParseIdle /\ SaveIdle /\ AuxIdle

\* time passes between two runs
TickBetweenRuns == Idle /\ Tick

TimedNext ==
    \/ \E r \in SeqRuns : RunStep(r)
    \/ TickBetweenRuns

\* runs of run_crawl one after another on an unchanging registry, time
\* passing between them
TimedSpec == TimedSpecInit /\ [][TimedNext]_vars

PhaseSpecInit ==
    /\ registry = <<>> /\ CrawlIdle /\ FetchAllInit /\ HashIdle /\ ParseIdle
    /\ clock = 0 /\ save_call = NoSave
    /\ phase_pc = "input"
    /\ phase_in \in PhaseInputs
    /\ phase_out = Nil
    /\ BulkIdle /\ BatchIdle

PhaseNext == NormalizeCall

\* normalize_phase called on any phase summary
PhaseSpec == PhaseSpecInit /\ [][PhaseNext]_vars

BulkNext == BulkCall \/ BulkRunReturns \/ BulkDiscard

\* bulk crawls one after another, each run_crawl call returning any stats
BulkSpec == Init /\ [][BulkNext]_vars

BatchNext ==
    \/ BatchScrapeCall
    \/ TaskStarts
    \/ TaskEnds
    \/ GatherReturns
    \/ SleepReturns
    \/ BatchDiscard

\* calls of batch_scrape one after another, each scrape ending in any way
BatchSpec == Init /\ [][BatchNext]_vars

ConcurrentSpecInit ==
    /\ registry \in PairRegistries
    /\ CrawlIdle /\ FetchAllInit /\ HashIdle /\ ParseIdle /\ SaveIdle /\ AuxIdle

\* a step of execution r; its stats are kept once it has returned
CallStep(r) ==
    \/ Start(r)
    \/ FetchReturns(r)
    \/ FetchRaises(r)
    \/ LoadReturns(r)
    \/ LoadRaises(r)
    \/ RecordRaises(r)
    \/ SkipRecord(r)
    \/ ProcessRecord(r)
    \/ ScrapeReturns(r)
    \/ UpdateCrawlReturns(r)
    \/ UpdateCrawlRaises(r)
    \/ LoopEndsEmpty(r)
    \/ LoopEndsSave(r)
    \/ SaveReturns(r)
    \/ SaveRaises(r)

ConcurrentNext == \E r \in Runs : CallStep(r)

\* two run_crawl calls on empty stores and an unchanging registry, their
\* steps interleaved in any order
ConcurrentSpec == ConcurrentSpecInit /\ [][ConcurrentNext]_vars

SaveSpecInit ==
    registry = <<>> /\ CrawlIdle /\ FetchAllInit /\ HashIdle /\ ParseIdle /\ SaveIdle /\ AuxIdle

SaveNext == SaveTrialsCall \/ SaveTrialCall \/ Tick

\* the writes of db.trials, one call of save_trials or save_trial after
\* another, as time passes
SaveSpec == SaveSpecInit /\ [][SaveNext]_vars

FetchAllSpecInit ==
    registry = <<>> /\ CrawlIdle /\ FetchAllInit /\ HashIdle /\ ParseIdle /\ SaveIdle /\ AuxIdle

FetchAllNext ==
    \/ FetchAllCall
    \/ FetchAllPageReturns
    \/ FetchAllPageRaises
    \/ FetchAllDiscard

\* calls of fetch_all_trials against a registry that answers each page request
\* with any page of at most pageSize studies and any token
FetchAllSpec == FetchAllSpecInit /\ [][FetchAllNext]_vars

\* the same, every fetch_trials call in flight coming to an end
FetchAllFairSpec ==
    FetchAllSpecInit /\ [][FetchAllNext]_vars
        /\ WF_vars(FetchAllPageReturns \/ FetchAllPageRaises)

HashSpecInit ==
    /\ registry = <<>> /\ CrawlIdle /\ FetchAllInit /\ ParseIdle /\ SaveIdle /\ AuxIdle
    /\ hash_pc = "input"
    /\ hash_in \in {<<parse_trial_data(a), parse_trial_data(b)>> : a, b \in HashStudies}
    /\ hash_out = <<>>

HashNext == HashCall \/ HashAgain

\* hash_trial_data called, and called again, on any two records that
\* parse_trial_data makes of the studies HashStudies
HashSpec == HashSpecInit /\ [][HashNext]_vars

ParseSpecInit ==
    /\ registry = <<>> /\ CrawlIdle /\ FetchAllInit /\ HashIdle /\ SaveIdle /\ AuxIdle
    /\ parse_pc = "input"
    /\ parse_in \in SparseTrials
    /\ parse_out = <<>>
    /\ markdown = <<>>

ParseNext == ParseCall \/ RenderCall

\* parse_trial_data, then generate_trial_markdown, on any sparse study
ParseSpec == ParseSpecInit /\ [][ParseNext]_vars

\* the registry holding m matching studies
Upstream(m) ==
    [j \in 1..m |-> [wellFormed |-> TRUE, nctId |-> "NCT" \o ToString(j),
                     briefTitle |-> "T", overallStatus |-> "RECRUITING",
                     eligibilityCriteria |-> "x"]]

PagedFetchSpecInit ==
    /\ registry \in {Upstream(m) : m \in 0..MaxFetchAll}
    /\ CrawlIdle /\ FetchAllInit /\ HashIdle /\ ParseIdle /\ SaveIdle /\ AuxIdle

PagedFetchNext ==
    \/ StartWith(1, 1..MaxFetchAll)
    \/ FetchReturns(1)
    \/ FetchRaises(1)

\* step 1 of one run_crawl call, max_trials up to MaxFetchAll, against a
\* registry of up to MaxFetchAll matching studies
PagedFetchSpec == PagedFetchSpecInit /\ [][PagedFetchNext]_vars

-----------------------------------------------------------------------------
(* Reading the history of an execution *)

ClassOps == {"new", "updated", "skipped"}

\* the positions of log[r] that hold an event op
Events(r, ops) == {k \in 1..Len(log[r]) : log[r][k].op \in ops}
\* the events op of the record at position i of raw_trials[r]
EventsOf(r, ops, i) == {k \in Events(r, ops) : log[r][k].i = i}
\* the store writes execution r made: upserts of db.crawl_index and of db.trials
StoreWrites(r) ==
    {k \in Events(r, {"crawl_write"}) : log[r][k].ok}
        \cup {k \in Events(r, {"trials_write"}) : log[r][k].i > 0}

NctIdAt(r, i) == parse_trial_data(raw_trials[r][i]).nct_id
HashAt(r, i) == hash_trial_data(parse_trial_data(raw_trials[r][i]))
Positions(r) == 1..Len(raw_trials[r])

\* no two fetched records share an identifier
DistinctIds(r) ==
    \A i, j \in Positions(r) : NctIdAt(r, i) = NctIdAt(r, j) => i = j
\* fetched records that share an identifier have the same fingerprint
OneHashPerId(r) ==
    \A i, j \in Positions(r) : NctIdAt(r, i) = NctIdAt(r, j) => HashAt(r, i) = HashAt(r, j)

CleanReturn(r) == pc[r] = "done" /\ stats[r].errors = <<>>

-----------------------------------------------------------------------------
(* C1 *)

-----------------------------------------------------------------------------
(* C2 *)

\* C2.  Every record the loop classifies gets exactly one outcome: NEW iff
\* the loaded Crawl-State map has no entry for its identifier, UNCHANGED iff
\* it has one with the fresh fingerprint and force_refresh is false, CHANGED
\* otherwise; the three counters count these outcomes and only NEW and
\* CHANGED records enter the batch.
C2_Classification ==
    \A r \in Runs :
        /\ \A k \in Events(r, ClassOps) :
             LET i == log[r][k].i
                 entry == GetRecord(existing_records[r], NctIdAt(r, i))
                 same == \E e \in entry : e.source_hash = HashAt(r, i)
             IN  /\ log[r][k].op = "new" <=> entry = {}
                 /\ log[r][k].op = "skipped" <=>
                        (entry # {} /\ same /\ ~args[r].force_refresh)
                 /\ log[r][k].op = "updated" <=>
                        (entry # {} /\ (~same \/ args[r].force_refresh))
        /\ \A i \in Positions(r) :
             /\ Cardinality(EventsOf(r, ClassOps, i)) <= 1
             /\ i < idx[r] => Cardinality(EventsOf(r, ClassOps, i)) = 1
        /\ stats[r].new_trials = Cardinality(Events(r, {"new"}))
        /\ stats[r].updated_trials = Cardinality(Events(r, {"updated"}))
        /\ stats[r].skipped_trials = Cardinality(Events(r, {"skipped"}))
        /\ Len(trials_to_save[r]) =
              Cardinality(Events(r, {"new", "updated"}))
                  - (IF pc[r] = "enrich" THEN 1 ELSE 0)

\* a run that skipped one record and found another changed
C2_Witness ==
    \E r \in Runs :
        /\ pc[r] = "done"
        /\ Events(r, {"skipped"}) # {}
        /\ Events(r, {"updated"}) # {}

-----------------------------------------------------------------------------
(* C3 *)

\* the fetched records by the Crawl-State entry they had when the run began
NoEntryAtStart(r) ==
    {i \in Positions(r) : GetRecord(crawl_at_start[r], NctIdAt(r, i)) = {}}
SameAtStart(r) ==
    {i \in Positions(r) :
        \E e \in GetRecord(crawl_at_start[r], NctIdAt(r, i)) : e.source_hash = HashAt(r, i)}
DiffersAtStart(r) == (Positions(r) \ NoEntryAtStart(r)) \ SameAtStart(r)

\* C3.  A run over records with pairwise distinct identifiers that returns
\* without error and without force_refresh reports total_fetched = number of
\* fetched records, new_trials = number without an entry at run start,
\* updated_trials = number whose entry differs, skipped_trials = number
\* whose entry is equal.
C3_Statistics ==
    \A r \in Runs :
        CleanReturn(r) /\ ~args[r].force_refresh /\ DistinctIds(r) =>
            /\ stats[r].total_fetched = Len(raw_trials[r])
            /\ stats[r].new_trials = Cardinality(NoEntryAtStart(r))
            /\ stats[r].updated_trials = Cardinality(DiffersAtStart(r))
            /\ stats[r].skipped_trials = Cardinality(SameAtStart(r))

\* two known records fetched, one of them changed: {2, 0, 1, 1}
C3_Witness ==
    \E r \in Runs :
        /\ CleanReturn(r) /\ ~args[r].force_refresh /\ DistinctIds(r)
        /\ stats[r].total_fetched = 2
        /\ stats[r].new_trials = 0
        /\ stats[r].updated_trials = 1
        /\ stats[r].skipped_trials = 1

-----------------------------------------------------------------------------
(* C4 *)

\* C4.  With force_refresh no record is skipped, every record the loop has
\* passed was appended to the batch and had its Crawl-State entry written,
\* and a run that returns without error has passed every fetched record.
C4_ForcedRefresh ==
    \A r \in Runs :
        args[r].force_refresh /\ pc[r] # "idle" =>
            /\ stats[r].skipped_trials = 0
            /\ Events(r, {"skipped"}) = {}
            /\ \A i \in Positions(r) :
                 i < idx[r] =>
                    /\ Len(trials_to_save[r]) >= i
                    /\ trials_to_save[r][i].nct_id = NctIdAt(r, i)
                    /\ trials_to_save[r][i].source_hash = HashAt(r, i)
                    /\ \E k \in EventsOf(r, {"crawl_write"}, i) : log[r][k].ok
            /\ CleanReturn(r) /\ raw_trials[r] # <<>> =>
                    /\ idx[r] = Len(raw_trials[r]) + 1
                    /\ Len(trials_to_save[r]) = stats[r].total_fetched

\* a forced run that returned without error and processed a record whose
\* stored fingerprint equals the fresh one
C4_Witness ==
    \E r \in Runs :
        /\ args[r].force_refresh
        /\ CleanReturn(r)
        /\ Len(trials_to_save[r]) = 2
        /\ SameAtStart(r) # {}

-----------------------------------------------------------------------------
(* C5 *)

\* the failed calls of execution r
Failed(r, ops) == {k \in Events(r, ops) : ~log[r][k].ok}

\* C5.  When the only failures of a run are records that raise, every other
\* fetched record is still classified and the documents of the NEW and
\* CHANGED ones are persisted, each raising record adding one error.
C5_RecordFailureIsolated ==
    \A r \in Runs :
        /\ pc[r] = "done"
        /\ Failed(r, {"fetch", "crawl_read", "crawl_write", "trials_write"}) = {}
        => /\ Len(stats[r].errors) =
                 Cardinality({i \in Positions(r) : parse_raises(raw_trials[r][i])})
           /\ \A i \in Positions(r) :
                ~parse_raises(raw_trials[r][i]) =>
                    /\ EventsOf(r, ClassOps, i) # {}
                    /\ EventsOf(r, {"new", "updated"}, i) # {} =>
                           \E d \in trials : d.nct_id = NctIdAt(r, i)

-----------------------------------------------------------------------------
(* C6 *)

\* C6.  When save_trials fails, the caller of run_crawl receives the
\* exception, not a statistics object.
C6_SaveFailurePropagates ==
    \A r \in Runs :
        pc[r] = "done" /\ Failed(r, {"trials_write"}) # {} => returned[r] = "exception"

-----------------------------------------------------------------------------
(* C7 *)

\* C7.  When the registry fetch fails, no record is processed, neither store
\* is written, and the caller of run_crawl receives the exception.
C7_FetchFailureAborts ==
    \A r \in Runs :
        pc[r] = "done" /\ Failed(r, {"fetch"}) # {} =>
            /\ Events(r, ClassOps \cup {"parse", "scrape"}) = {}
            /\ StoreWrites(r) = {}
            /\ returned[r] = "exception"

-----------------------------------------------------------------------------
(* C8 *)

\* document d of db.trials holds the fields of trial_doc
StoredAs(trial_doc, d) == \A f \in DOMAIN trial_doc : d[f] = trial_doc[f]

\* the place in the batch of the document of the record at position i
BatchPos(r, i) == Cardinality({k \in Events(r, {"new", "updated"}) : log[r][k].i <= i})

\* C8.  A record whose enrichment failed is appended to the batch with
\* enriched_content None and the failure adds nothing to stats.errors; a bulk
\* write that reaches the document stores it as it stands in the batch, and
\* a run that returns without error has handled the remaining records and
\* made that write.
C8_EnrichmentFailureContained ==
    \A r \in Runs :
        \A k \in Failed(r, {"scrape"}) :
            LET i == log[r][k].i
                p == BatchPos(r, i)
                later == {q \in (p + 1)..Len(trials_to_save[r]) :
                             trials_to_save[r][q].nct_id = NctIdAt(r, i)}
                written == {w \in Events(r, {"trials_write"}) : log[r][w].i >= p}
            IN  /\ Len(trials_to_save[r]) >= p
                /\ trials_to_save[r][p] =
                       TrialDoc(parse_trial_data(raw_trials[r][i]), HashAt(r, i), Nil)
                /\ Len(stats[r].errors) =
                       Cardinality(Failed(r, {"fetch", "crawl_read", "parse",
                                              "crawl_write", "trials_write"}))
                /\ written # {} =>
                       /\ \E d \in trials : d.nct_id = NctIdAt(r, i)
                       /\ later = {} =>
                              \E d \in trials : StoredAs(trials_to_save[r][p], d)
                /\ CleanReturn(r) =>
                       /\ idx[r] = Len(raw_trials[r]) + 1
                       /\ written # {}

\* a run that returned without error after the enrichment of its first record
\* failed: the second record was enriched, the first is stored without
\* enrichment
C8_Witness ==
    \E r \in Runs :
        /\ CleanReturn(r)
        /\ Failed(r, {"scrape"}) # {}
        /\ \A k \in Failed(r, {"scrape"}) : log[r][k].i = 1
        /\ \E k \in Events(r, {"scrape"}) : log[r][k].i = 2 /\ log[r][k].ok
        /\ \E d \in trials : d.nct_id = NctIdAt(r, 1) /\ d.enriched_content = Nil

-----------------------------------------------------------------------------
(* C9 *)

\* C9.  scrape_trial_page is called only when enrich_with_firecrawl is set,
\* only for a record already counted NEW or CHANGED, never for a skipped
\* record, and once per record.
C9_EnricherDiscipline ==
    \A r \in Runs :
        \A k \in Events(r, {"scrape"}) :
            LET i == log[r][k].i
            IN  /\ args[r].enrich_with_firecrawl
                /\ \E c \in EventsOf(r, {"new", "updated"}, i) : c < k
                /\ EventsOf(r, {"skipped"}, i) = {}
                /\ EventsOf(r, {"scrape"}, i) = {k}

\* an enriching run that skipped a record and whose one scrape failed
C9_Witness ==
    \E r \in Runs :
        /\ pc[r] = "done"
        /\ Events(r, {"skipped"}) # {}
        /\ Cardinality(Events(r, {"scrape"})) = 1
        /\ Failed(r, {"scrape"}) # {}

-----------------------------------------------------------------------------
(* C10 *)

\* C10.  fetch_all_trials never holds, and so never returns, more than
\* max_trials records.
C10_PaginationBound ==
    Len(fa_all_trials) <= fa_max_trials

\* a call with max_trials above the page cap returned max_trials records
\* while the registry still announced a next page
C10_Witness ==
    /\ fa_pc = "returned"
    /\ fa_max_trials > FetchAllPageCap
    /\ Len(fa_all_trials) = fa_max_trials
    /\ Truthy(fa_page_token)

-----------------------------------------------------------------------------
(* C11 *)

\* the number of records the page just returned added to all_trials
PageCount == Len(fa_all_trials') - Len(fa_all_trials)

\* a fetch_trials call of fetch_all_trials returns a page
PageStep == fa_pc = "fetching" /\ fa_result'.state = "page"

\* the page just returned ends the loop
LastPage ==
    \/ Len(fa_all_trials') >= fa_max_trials
    \/ ~Truthy(fa_result'.next_page_token)
    \/ PageCount = 0

\* C11.  Every call of fetch_all_trials comes to an end when its fetch calls
\* do.  A page that fills all_trials up to max_trials, carries no next-page
\* token or holds no record is the last one: fetch_all_trials returns and
\* no fetch call follows.  Any other page is followed by a fetch call that
\* passes the token of that page; the first call passes None, and a call
\* with max_trials = 0 fetches nothing.
C11_PaginationTerminates ==
    /\ [][/\ PageStep =>
               /\ (LastPage => fa_pc' = "returned")
               /\ (~LastPage =>
                     /\ fa_pc' = "fetching"
                     /\ fa_sent_token' = fa_result'.next_page_token
                     /\ Len(fa_all_trials') > Len(fa_all_trials))
           /\ (fa_pc = "idle" /\ fa_pc' = "fetching" => fa_sent_token' = Nil)
           /\ (fa_pc = "idle" /\ fa_max_trials' = 0 => fa_pc' = "returned")
           /\ (fa_pc = "returned" => fa_pc' # "fetching")]_vars
    /\ (fa_pc = "fetching") ~> (fa_pc \in {"returned", "raised"})

\* a call that went through two pages and returned on a third without token,
\* short of max_trials
C11_Witness ==
    /\ fa_pc = "returned"
    /\ fa_result = PageResult(Nil)
    /\ fa_page_token = "t2"
    /\ fa_sent_token = "t2"
    /\ Len(fa_all_trials) < fa_max_trials

-----------------------------------------------------------------------------
(* C12 *)

\* C12.  Once a page fetch of fetch_all_trials has failed, the caller holds
\* the exception: the call is not fetching again and has not returned a list.
C12_PaginationFailurePropagates ==
    fa_result.state = "raised" => fa_pc = "raised"

\* the fetch of a later page failed, records of earlier pages being held
C12_Witness ==
    /\ fa_result.state = "raised"
    /\ Truthy(fa_sent_token)
    /\ Len(fa_all_trials) > 0

-----------------------------------------------------------------------------
(* C13 *)

\* line 36: the fields hash_trial_data digests
DigestFields == {"title", "status", "eligibility_criteria"}

SameDigestFields(trial1, trial2) == \A f \in DigestFields : trial1[f] = trial2[f]

Hashed == hash_pc \in {"hashed", "hashed twice"}

\* C13.  Two records with equal title, status and eligibility_criteria have
\* equal fingerprints whatever their other fields are, and a second call on
\* the same records returns the fingerprints of the first.
C13_FingerprintOfDigestFields ==
    /\ [](Hashed /\ SameDigestFields(hash_in[1], hash_in[2]) => hash_out[1] = hash_out[2])
    /\ [][hash_pc = "hashed" => hash_out' = hash_out]_vars

\* two records fingerprinted twice that agree on the three fields, one with
\* a study type and one without
C13_Witness ==
    /\ hash_pc = "hashed twice"
    /\ SameDigestFields(hash_in[1], hash_in[2])
    /\ hash_in[1].title = "a"
    /\ hash_in[1].study_type # hash_in[2].study_type
    /\ hash_out[1] = hash_out[2]

-----------------------------------------------------------------------------
(* C14 *)

\* C14.  Two records that differ in title, status or eligibility_criteria
\* give hash_trial_data different strings to digest.
C14_FingerprintSeparates ==
    Hashed /\ ~SameDigestFields(hash_in[1], hash_in[2]) => hash_out[1] # hash_out[2]

-----------------------------------------------------------------------------
(* C15 *)

\* the two records differ in field f at most
AgreeExcept(trial1, trial2, f) ==
    \A g \in DOMAIN trial1 \ {f} : trial1[g] = trial2[g]

\* C15.  A record in which a digested field is null has the fingerprint of
\* the record in which that field is the empty string, and not that of a
\* record in which the field is a non-empty text.
C15_NullAsEmptyString ==
    Hashed =>
        \A f \in DigestFields :
            hash_in[1][f] = Nil /\ AgreeExcept(hash_in[1], hash_in[2], f) =>
                /\ hash_in[2][f] = "" => hash_out[1] = hash_out[2]
                /\ hash_in[2][f] \notin {Nil, ""} => hash_out[1] # hash_out[2]

-----------------------------------------------------------------------------
(* C16 *)

\* lines 166-194: the scalar fields of the record, by the leaf each is read from
ScalarLeaves ==
    [nctId |-> "nct_id", briefTitle |-> "title", officialTitle |-> "official_title",
     overallStatus |-> "status", startDate |-> "start_date",
     completionDate |-> "completion_date", lastUpdateSubmitDate |-> "last_updated",
     phases |-> "phase", studyType |-> "study_type", enrollment |-> "enrollment",
     eligibilityCriteria |-> "eligibility_criteria", minimumAge |-> "minimum_age",
     maximumAge |-> "maximum_age", sex |-> "sex",
     healthyVolunteers |-> "healthy_volunteers", briefSummary |-> "brief_summary",
     detailedDescription |-> "detailed_description", leadSponsor |-> "sponsor"]

\* lines 195-237: the list fields of the record
ListLeaves ==
    [collaborators |-> "collaborators", locations |-> "locations",
     centralContacts |-> "central_contacts", interventions |-> "interventions",
     primaryOutcomes |-> "primary_outcomes"]

\* C16.  parse_trial_data raises on no sparse study, and in the record it
\* returns every scalar field whose leaf is missing, phase included, is None
\* and every list whose leaf is missing is empty.
C16_SparseInputGivesNulls ==
    /\ parse_pc = "input" => ~parse_raises(parse_in)
    /\ parse_pc \in {"parsed", "rendered"} =>
          /\ \A k \in DOMAIN ScalarLeaves :
                k \notin DOMAIN parse_in => parse_out[ScalarLeaves[k]] = Nil
          /\ \A k \in DOMAIN ListLeaves :
                k \notin DOMAIN parse_in => parse_out[ListLeaves[k]] = <<>>

-----------------------------------------------------------------------------
(* C17 *)

\* the optional scalar fields that have a line of their own
OptionalLines == {l \in DOMAIN ScalarLines : ScalarLines[l][1] # "nct_id"}

\* C17.  In the text rendered from a record of parse_trial_data, the line
\* of every optional scalar field that is None carries the placeholder of
\* that line, and an empty interventions, locations or contacts list is
\* rendered as its "none listed" line.
C17_RendererPlaceholders ==
    parse_pc = "rendered" =>
        /\ \A l \in OptionalLines :
              parse_out[ScalarLines[l][1]] = Nil =>
                  markdown.scalars[l] =
                      ScalarLines[l][2] \o ScalarLines[l][3] \o ScalarLines[l][4]
        /\ parse_out.interventions = <<>> =>
              markdown.interventions = <<"- No interventions listed">>
        /\ parse_out.locations = <<>> =>
              markdown.locations = <<"- No locations listed">>
        /\ parse_out.central_contacts = <<>> =>
              markdown.contacts = <<"- No central contacts listed">>

-----------------------------------------------------------------------------
(* C18 *)

\* the document of db.trials with the identifier, as a set
DocsOf(coll, nct_id) == {d \in coll : d.nct_id = nct_id}

\* C18.  Every document a call of save_trials or save_trial wrote has
\* updated_at at the time of the call; a document that appears has
\* created_at at the time of the call that inserts it, and no later write
\* changes created_at.
C18_Timestamps ==
    /\ [](\A id \in save_call.ids :
             \E d \in DocsOf(trials, id) : d.updated_at = save_call.at)
    /\ [][/\ \A d \in trials :
                \E e \in DocsOf(trials', d.nct_id) : e.created_at = d.created_at
           /\ \A n \in trials' :
                DocsOf(trials, n.nct_id) = {} => n.created_at = clock]_vars

\* a document inserted at time 0 and written again by the latest call, at
\* the latest time
C18_Witness ==
    \E d \in trials :
        /\ d.created_at = 0
        /\ d.updated_at = MaxClock
        /\ d.nct_id \in save_call.ids
        /\ save_call.at = MaxClock

-----------------------------------------------------------------------------
(* C19 *)

\* the collection holds one document per identifier at most
UniqueKey(coll) == \A d, e \in coll : d.nct_id = e.nct_id => d = e

Ids(coll) == {d.nct_id : d \in coll}

\* C19.  db.trials and db.crawl_index hold at most one document per
\* identifier, and no identifier leaves db.trials.
C19_StoreKeys ==
    /\ [](UniqueKey(trials) /\ UniqueKey(crawl_index))
    /\ [][Ids(trials) \subseteq Ids(trials')]_vars

\* a run has written a fetch that held one identifier twice, with different
\* fingerprints, into both stores
C19_Witness ==
    \E r \in Runs :
        /\ CleanReturn(r)
        /\ ~OneHashPerId(r)
        /\ \E k \in Events(r, {"trials_write"}) : log[r][k].i = 2
        /\ Cardinality(Events(r, {"crawl_write"})) = 2

-----------------------------------------------------------------------------
(* C20 *)

\* C20.  A run whose fetch returns no record returns statistics with the
\* four counters 0, no error and end_time set; it has made the fetch call
\* and no other: the Crawl-State Store is not read and no store is written.
C20_EmptyFetch ==
    \A r \in Runs :
        pc[r] \notin {"idle", "fetch"} /\ raw_trials[r] = <<>>
            /\ Failed(r, {"fetch"}) = {} =>
                /\ pc[r] = "done"
                /\ returned[r] = "stats"
                /\ stats[r] = [InitStats EXCEPT !.end_time = "set"]
                /\ log[r] = <<Event("fetch", 0, TRUE)>>

\* a run against an empty registry returned while db.crawl_index held entries
C20_Witness ==
    \E r \in Runs :
        /\ pc[r] = "done"
        /\ log[r] = <<Event("fetch", 0, TRUE)>>
        /\ raw_trials[r] = <<>>
        /\ crawl_index # {}

-----------------------------------------------------------------------------
(* C21 *)

\* C21: for every max_trials = N >= 1 and a registry holding M matching
\* studies, the fetch step of run_crawl hands min(N, M) studies to the loop
\* and total_fetched = min(N, M), whatever the number of pages needed.
C21_FetchesAcrossPages ==
    \A r \in Runs :
        (pc[r] \in {"load", "done"} /\ Events(r, {"fetch"}) # {}
            /\ \A k \in Events(r, {"fetch"}) : log[r][k].ok)
        => /\ stats[r].total_fetched = Min(args[r].max_trials, Len(registry))
           /\ Len(raw_trials[r]) = Min(args[r].max_trials, Len(registry))

-----------------------------------------------------------------------------
(* C22 *)

\* C22: a run writes its entries of db.crawl_index only when persisting:
\* every update_crawl_record it makes comes after each fetched record has
\* been classified and after the bulk upsert of its documents, never while
\* later records are still to be processed.
C22_EntriesWrittenWhenPersisting ==
    \A r \in Runs : \A k \in Events(r, {"crawl_write"}) :
        log[r][k].ok
        => /\ \A i \in Positions(r) : \E c \in EventsOf(r, ClassOps, i) : c < k
           /\ \E w \in Events(r, {"trials_write"}) : w < k

-----------------------------------------------------------------------------
(* C23 *)

\* the documents of the batch of execution r for identifier nct_id with
\* fingerprint source_hash
BatchDocs(r, nct_id, source_hash) ==
    {p \in 1..Len(trials_to_save[r]) :
        /\ trials_to_save[r][p].nct_id = nct_id
        /\ trials_to_save[r][p].source_hash = source_hash}

\* C23: a run with a non-empty fetch reads db.crawl_index exactly once, and
\* it keeps the map it read up to date: once a record has been classified new
\* or updated, a later record of the run with the same identifier and the
\* same fingerprint is classified skipped (no forced refresh), and the batch
\* holds at most one document for that identifier and fingerprint.
C23_InMemoryMapKeptFresh ==
    \A r \in Runs :
        /\ Cardinality(Events(r, {"crawl_read"})) <= 1
        /\ (pc[r] \in {"loop", "enrich", "update", "save"}
               => Cardinality(Events(r, {"crawl_read"})) = 1)
        /\ ~args[r].force_refresh
           => \A i, j \in Positions(r) :
                (/\ i < j
                 /\ NctIdAt(r, i) = NctIdAt(r, j)
                 /\ HashAt(r, i) = HashAt(r, j)
                 /\ EventsOf(r, {"new", "updated"}, i) # {}
                 /\ EventsOf(r, ClassOps, j) # {})
                => /\ EventsOf(r, {"skipped"}, j) # {}
                   /\ Cardinality(BatchDocs(r, NctIdAt(r, i), HashAt(r, i))) <= 1

-----------------------------------------------------------------------------
(* C27 *)

\* C27: whenever no run is in progress, every identifier with an entry in
\* db.crawl_index has a document in db.trials whose source_hash equals the
\* entry's, whatever the outcomes of the runs so far.
C27_EntryHasDocument ==
    Idle => \A e \in crawl_index :
                \E d \in trials : d.nct_id = e.nct_id /\ d.source_hash = e.source_hash

-----------------------------------------------------------------------------
(* C29 *)

Classified(r) ==
    stats[r].new_trials + stats[r].updated_trials + stats[r].skipped_trials

\* the counters of execution r do not decrease while the call lasts
CountersGrow(r) ==
    (pc[r] # "idle" /\ pc'[r] # "idle")
    => /\ stats'[r].total_fetched >= stats[r].total_fetched
       /\ stats'[r].new_trials >= stats[r].new_trials
       /\ stats'[r].updated_trials >= stats[r].updated_trials
       /\ stats'[r].skipped_trials >= stats[r].skipped_trials

\* the three classification counters never exceed total_fetched, and add up
\* to it when the run returns with an empty error list
CountersBounded(r) ==
    /\ (pc[r] \notin {"idle", "fetch"} => Classified(r) <= stats[r].total_fetched)
    /\ (CleanReturn(r) => Classified(r) = stats[r].total_fetched)

\* C29 as stated: at every point of a run new_trials + updated_trials +
\* skipped_trials <= total_fetched, each counter only increases, the batch
\* holds exactly new_trials + updated_trials documents, and a run returning
\* without errors has classified every fetched record.
C29_CounterInvariant_AsStated ==
    /\ [](\A r \in Runs :
            /\ CountersBounded(r)
            /\ Len(trials_to_save[r]) = stats[r].new_trials + stats[r].updated_trials)
    /\ [][\A r \in Runs : CountersGrow(r)]_vars

\* C29, amended: the same, except that while scrape_trial_page is awaited
\* for a record already counted as new or updated, the batch is one
\* document short of new_trials + updated_trials.
C29_CounterInvariant ==
    /\ [](\A r \in Runs :
            /\ CountersBounded(r)
            /\ Len(trials_to_save[r]) =
                  stats[r].new_trials + stats[r].updated_trials
                    - (IF pc[r] = "enrich" THEN 1 ELSE 0))
    /\ [][\A r \in Runs : CountersGrow(r)]_vars

C29_Witness ==
    \E r \in Runs :
        /\ pc[r] = "enrich"
        /\ stats[r].new_trials + stats[r].updated_trials = 2
        /\ Len(trials_to_save[r]) = 1

-----------------------------------------------------------------------------
(* C24 *)

\* the step in which execution r classifies a record as unchanged
SkippedStep(r) ==
    /\ Len(log'[r]) = Len(log[r]) + 1
    /\ log'[r][Len(log'[r])].op = "skipped"

\* the records of execution r with identifier nct_id were all skipped
OnlySkipped(r, nct_id) ==
    \A i \in Positions(r) :
        NctIdAt(r, i) = nct_id => EventsOf(r, {"new", "updated"}, i) = {}

\* C24: classifying a record as unchanged only increments skipped_trials:
\* db.crawl_index (fingerprints and last_scraped), db.trials (updated_at
\* included) and the batch are the same after the step as before it; and an
\* identifier whose records a run only skipped has, while the run lasts, the
\* entry it had when the run was called.
C24_SkipLeavesStores ==
    /\ [][\A r \in Runs :
            SkippedStep(r)
            => /\ crawl_index' = crawl_index
               /\ trials' = trials
               /\ trials_to_save' = trials_to_save
               /\ stats'[r] = [stats[r] EXCEPT !.skipped_trials = @ + 1]]_vars
    /\ [](\A r \in Runs : \A k \in Events(r, {"skipped"}) :
            OnlySkipped(r, NctIdAt(r, log[r][k].i))
            => GetRecord(crawl_index, NctIdAt(r, log[r][k].i))
                 = GetRecord(crawl_at_start[r], NctIdAt(r, log[r][k].i)))

\* a record was skipped whose entry was last written at an earlier time
C24_Witness ==
    \E r \in Runs : \E k \in Events(r, {"skipped"}) :
        \E e \in crawl_index :
            /\ e.nct_id = NctIdAt(r, log[r][k].i)
            /\ e.source_hash = HashAt(r, log[r][k].i)
            /\ e.last_scraped < clock
            /\ \E d \in trials : d.nct_id = e.nct_id /\ d.updated_at < clock

-----------------------------------------------------------------------------
(* C30 *)

Buckets ==
    {"phase1", "phase2", "phase3", "phase4", "phase1_2", "phase2_3",
     "early_phase1", "other"}

\* the bucket named after a registry tag
OwnBucket ==
    [EARLY_PHASE1 |-> "early_phase1", PHASE1 |-> "phase1", PHASE2 |-> "phase2",
     PHASE3 |-> "phase3", PHASE4 |-> "phase4"]

\* C30: normalize_phase returns one of the eight buckets for every argument;
\* a summary of a single tag PHASE1..PHASE4 or EARLY_PHASE1 goes to the
\* bucket of that tag, a summary of two adjacent tags to the combined bucket,
\* and an empty, "N/A" or "NA" summary to other.
C30_PhaseBucketing ==
    phase_pc = "normalized"
    => /\ phase_out \in Buckets
       /\ \A tag \in DOMAIN OwnBucket :
             phase_in = PhaseText(<<tag>>) => phase_out = OwnBucket[tag]
       /\ (phase_in = PhaseText(<<"PHASE1", "PHASE2">>) => phase_out = "phase1_2")
       /\ (phase_in = PhaseText(<<"PHASE2", "PHASE3">>) => phase_out = "phase2_3")
       /\ (phase_in \in {NoText, <<>>, N_A, PhaseText(<<"NA">>)} => phase_out = "other")

-----------------------------------------------------------------------------
(* C28 *)

\* the sum of counter key over the stats dicts runs
RECURSIVE SumOf(_, _)
SumOf(runs, key) ==
    IF runs = <<>> THEN 0 ELSE runs[1][key] + SumOf(Tail(runs), key)

\* C28: the summary of a bulk crawl holds, for total_fetched, new_added,
\* updated and duplicates_skipped, the sums of total_fetched, new_trials,
\* updated_trials and skipped_trials over the stats the run_crawl calls
\* returned, and the detail of each condition holds that run's four counters.
C28_BulkAggregation ==
    bulk_pc = "returned"
    => /\ bulk_summary.total_fetched = SumOf(bulk_stats, "total_fetched")
       /\ bulk_summary.new_added = SumOf(bulk_stats, "new_trials")
       /\ bulk_summary.updated = SumOf(bulk_stats, "updated_trials")
       /\ bulk_summary.duplicates_skipped = SumOf(bulk_stats, "skipped_trials")
       /\ Len(bulk_details) = Len(bulk_stats)
       /\ \A c \in 1..Len(bulk_details) :
             /\ bulk_details[c].fetched = bulk_stats[c].total_fetched
             /\ bulk_details[c].new = bulk_stats[c].new_trials
             /\ bulk_details[c].updated = bulk_stats[c].updated_trials
             /\ bulk_details[c].skipped = bulk_stats[c].skipped_trials

-----------------------------------------------------------------------------
(* C25 *)

\* the scrape_url calls of the current gather that have not ended
InFlight == {k \in 1..Len(bs_tasks) : bs_tasks[k].state # "done"}

\* C25: batch_scrape(urls, concurrency = c) never has more than c scrapes in
\* flight; it scrapes every URL once, whatever the outcome of the other
\* scrapes of its batch and of earlier batches; and it returns one result per
\* URL, in the order of urls, with success = false for a scrape that failed.
C25_BatchIsolation ==
    /\ Cardinality(InFlight) <= bs_concurrency
    /\ bs_pc = "returned"
       => /\ Len(bs_results) = Len(bs_urls)
          /\ \A j \in 1..Len(bs_urls) :
                /\ Len(bs_scrapes[j]) = 1
                /\ bs_results[j].success = (bs_scrapes[j][1] = "ok")
                /\ (bs_scrapes[j][1] # "not_initialised" => bs_results[j].url = bs_urls[j])

\* three URLs scraped two at a time: the first scrape raised, the second
\* failed in the client, the third, in the next batch, succeeded
C25_Witness ==
    /\ bs_pc = "returned"
    /\ Len(bs_urls) = 3
    /\ bs_concurrency = 2
    /\ bs_scrapes = <<<<"not_initialised">>, <<"client_error">>, <<"ok">>>>
    /\ ~bs_results[1].success /\ ~bs_results[2].success /\ bs_results[3].success

-----------------------------------------------------------------------------
(* C26 *)

\* the identifiers execution r fetched
FetchedIds(r) == {NctIdAt(r, i) : i \in Positions(r)}

\* C26: when two run_crawl calls over the same upstream data have interleaved
\* and both returned without error, db.trials and db.crawl_index hold what
\* one run alone leaves: one document and one entry per fetched identifier,
\* and no others, the entry's fingerprint equal to the document's.
C26_ConcurrentRunsConverge ==
    (/\ \A r \in Runs : CleanReturn(r)
     /\ raw_trials[1] = raw_trials[2])
    => /\ {d.nct_id : d \in trials} = FetchedIds(1)
       /\ {e.nct_id : e \in crawl_index} = FetchedIds(1)
       /\ \A id \in FetchedIds(1) :
             /\ Cardinality(GetRecord(trials, id)) = 1
             /\ Cardinality(GetRecord(crawl_index, id)) = 1
             /\ \A d \in GetRecord(trials, id), e \in GetRecord(crawl_index, id) :
                   d.source_hash = e.source_hash

====
